---- MODULE Spec2Model ----
(***************************************************************************)
(* A model of the content-generation core of automation-app:               *)
(*   - the Term Suppressor   (src/src/openai.js, removeProhibitedContent), *)
(*   - the Article Generator (src/src/openai.js, generateArticleContent),  *)
(*   - the Recipe Extractor  (src/src/recipe-extraction.js).               *)
(* JavaScript strings are TLA+ strings; a character is a string of length  *)
(* one.  The regular expressions of the source are translated into         *)
(* scanners that visit the positions in the order the regex engine does.   *)
(***************************************************************************)
EXTENDS Integers, Sequences, FiniteSets, TLC

VARIABLES
    pc,             \* position of the running invocation
    promptSettings, \* the promptSettings argument (Null for null)
    keyword,        \* the keyword argument
    calls,          \* LLM completion calls issued so far, oldest first
    parts,          \* suppressed part texts received so far (multi-part)
    content,        \* local variable content / combinedContent
    title,          \* local variable title
    outcome,        \* what the invocation returned or threw
    fn,             \* pure-function harness: the function under test
    arg,            \* pure-function harness: its arguments
    ret             \* pure-function harness: its result

vars == <<pc, promptSettings, keyword, calls, parts, content, title, outcome,
          fn, arg, ret>>

(***************************************************************************)
(* A local constant of the source: F applied to the value of v, with v     *)
(* computed once, as an assignment to a const computes its right-hand side *)
(* once.                                                                   *)
(***************************************************************************)
Let(v, F(_)) == CHOOSE r \in { F(x) : x \in {v} } : TRUE

MinOf(S) == CHOOSE i \in S : \A j \in S : i <= j

\* the first position of lo..hi at which a left-to-right scan succeeds, 0 when
\* it succeeds nowhere
FirstWhere(lo, hi, P(_)) ==
    Let({ i \in lo..hi : P(i) }, LAMBDA S : IF S = {} THEN 0 ELSE MinOf(S))

(***************************************************************************)
(* Values and string primitives of the JavaScript runtime.                 *)
(***************************************************************************)
\* null, where an object may stand: every object has isNull FALSE
Null == [isNull |-> TRUE]

CharAt(s, i) == SubSeq(s, i, i)

Substring(s, from, to) == SubSeq(s, from, to)

RestFrom(s, i) == SubSeq(s, i, Len(s))

UpperLetters == "ABCDEFGHIJKLMNOPQRSTUVWXYZ"

LowerLetters == "abcdefghijklmnopqrstuvwxyz"

DigitSet == {"0", "1", "2", "3", "4", "5", "6", "7", "8", "9"}

LowerMap ==
    [c \in { CharAt(UpperLetters, i) : i \in 1..Len(UpperLetters) } |->
        CharAt(LowerLetters, CHOOSE i \in 1..Len(UpperLetters) : CharAt(UpperLetters, i) = c)]

LowerChar(c) == IF c \in DOMAIN LowerMap THEN LowerMap[c] ELSE c

\* every character lower-cased; the string is halved to keep the nesting flat
RECURSIVE toLowerCase(_)
toLowerCase(s) ==
    Let(s, LAMBDA x :
        IF Len(x) <= 1 THEN LowerChar(x)
        ELSE toLowerCase(Substring(x, 1, Len(x) \div 2))
             \o toLowerCase(RestFrom(x, Len(x) \div 2 + 1)))

\* \s of the regex engine and the white space String.prototype.trim removes
WhiteSpace == {" ", "\n", "\t", "\r"}

\* the end of the maximal run of characters of the set cs that starts at i
SpanEnd(s, i, cs) ==
    Let(FirstWhere(i, Len(s), LAMBDA k : CharAt(s, k) \notin cs), LAMBDA stop :
        IF stop # 0 THEN stop - 1 ELSE IF i > Len(s) THEN i - 1 ELSE Len(s))

\* s.trim(): from the first to the last character that is no white space
trim(s) ==
    Let(s, LAMBDA x :
        Let({ k \in 1..Len(x) : CharAt(x, k) \notin WhiteSpace }, LAMBDA keep :
            IF keep = {} THEN ""
            ELSE Substring(x, MinOf(keep), CHOOSE i \in keep : \A j \in keep : i >= j)))

startsWith(s, p) == Len(p) <= Len(s) /\ Substring(s, 1, Len(p)) = p

endsWith(s, p) == Len(p) <= Len(s) /\ Substring(s, Len(s) - Len(p) + 1, Len(s)) = p

\* s.indexOf(t, from) with 1-based positions; 0 when t does not occur
indexOfFrom(s, t, from) ==
    FirstWhere(from, Len(s) - Len(t) + 1, LAMBDA i : Substring(s, i, i + Len(t) - 1) = t)

\* s.includes(t)
includes(s, t) == \E i \in 1..(Len(s) - Len(t) + 1) : Substring(s, i, i + Len(t) - 1) = t

\* seq.join(sep)
RECURSIVE Join(_, _)
Join(seq, sep) ==
    Let(seq, LAMBDA xs :
        IF Len(xs) = 0 THEN ""
        ELSE IF Len(xs) = 1 THEN xs[1]
        ELSE xs[1] \o sep \o Join(Tail(xs), sep))

RECURSIVE StringsUpTo(_, _)
StringsUpTo(alphabet, n) ==
    IF n = 0 THEN {""}
    ELSE Let(StringsUpTo(alphabet, n - 1), LAMBDA shorter :
             shorter \cup { s \o c : s \in shorter, c \in alphabet })

(***************************************************************************)
(* Term Suppressor: src/src/openai.js, removeProhibitedContent and its     *)
(* helpers.                                                                *)
(***************************************************************************)
\* \w of the regex engine
WordChars ==
    DOMAIN LowerMap \cup { CharAt(LowerLetters, i) : i \in 1..Len(LowerLetters) }
    \cup DigitSet \cup {"_"}

\* \b at the gap in front of position p of s (p = Len(s) + 1: the end of s)
WordBoundary(s, p) ==
    (p > 1 /\ CharAt(s, p - 1) \in WordChars) # (p <= Len(s) /\ CharAt(s, p) \in WordChars)

\* string.replace(/[.*+?^${}()|[\]\\]/g, '\\$&')
RECURSIVE escapeRegExp(_)
escapeRegExp(string) ==
    Let(string, LAMBDA x :
        IF x = "" THEN ""
        ELSE (IF CharAt(x, 1) \in {".", "*", "+", "?", "^", "$", "{", "}", "(", ")",
                                   "|", "[", "]", "\\"}
              THEN "\\" ELSE "")
             \o CharAt(x, 1) \o escapeRegExp(RestFrom(x, 2)))

RECURSIVE RegexAtoms(_)
RegexAtoms(source) ==
    Let(source, LAMBDA x :
        IF x = "" THEN <<>>
        ELSE IF CharAt(x, 1) = "\\" /\ Len(x) >= 2
             THEN <<CharAt(x, 2)>> \o RegexAtoms(RestFrom(x, 3))
        ELSE IF CharAt(x, 1) = "." THEN <<"ANY">> \o RegexAtoms(RestFrom(x, 2))
        ELSE <<CharAt(x, 1)>> \o RegexAtoms(RestFrom(x, 2)))

\* new RegExp(`\\b${escapeRegExp(term)}\\b`, 'gi') matches s at position i
WordPatternMatchesAt(s, atoms, i) ==
    /\ i + Len(atoms) - 1 <= Len(s)
    /\ WordBoundary(s, i)
    /\ \A k \in 1..Len(atoms) :
           IF atoms[k] = "ANY" THEN CharAt(s, i + k - 1) \notin {"\n", "\r"}
           ELSE LowerChar(atoms[k]) = LowerChar(CharAt(s, i + k - 1))
    /\ WordBoundary(s, i + Len(atoms))

Replacement == "[alternative]"

\* content.replace(wordPattern, '[alternative]'): the scan of a global regex,
\* resumed behind each match
RECURSIVE ReplaceFrom(_, _, _)
ReplaceFrom(s, atoms, i) ==
    Let(i, LAMBDA from :
    Let(FirstWhere(from, Len(s), LAMBDA k : WordPatternMatchesAt(s, atoms, k)), LAMBDA hit :
        IF hit = 0 THEN RestFrom(s, from)
        ELSE Substring(s, from, hit - 1) \o Replacement
             \o ReplaceFrom(s, atoms, hit + Len(atoms))))

ReplaceFirstOnly(s, term) ==
    Let(s, LAMBDA x :
    Let(RegexAtoms(escapeRegExp(term)), LAMBDA atoms :
    Let(FirstWhere(1, Len(x), LAMBDA k : WordPatternMatchesAt(x, atoms, k)), LAMBDA hit :
        IF hit = 0 THEN x
        ELSE Substring(x, 1, hit - 1) \o Replacement \o RestFrom(x, hit + Len(atoms)))))

ReplaceTerm(s, term) ==
    Let(s, LAMBDA x :
    Let(RegexAtoms(escapeRegExp(term)), LAMBDA atoms : ReplaceFrom(x, atoms, 1)))

\* avoidTerms.forEach(term => content = content.replace(...))
RECURSIVE ReplaceTerms(_, _)
ReplaceTerms(s, terms) ==
    Let(s, LAMBDA x :
        IF terms = <<>> THEN x ELSE ReplaceTerms(ReplaceTerm(x, Head(terms)), Tail(terms)))

(***************************************************************************)
(* parseAvoidTerms: the exec loop of                                       *)
(*   /(?:"([^"]+)"|'([^']+)'|([^,"']+))/g                                  *)
(***************************************************************************)
\* the match the regex finds at position i: [found, term, next]
TermMatchAt(s, i) ==
    Let(CharAt(s, i), LAMBDA c :
        IF c \in {"\"", "'"}
        THEN Let(indexOfFrom(s, c, i + 1), LAMBDA close :
                 IF close > i + 1
                 THEN [found |-> TRUE, term |-> Substring(s, i + 1, close - 1), next |-> close + 1]
                 ELSE [found |-> FALSE, term |-> "", next |-> i + 1])
        ELSE IF c = "," THEN [found |-> FALSE, term |-> "", next |-> i + 1]
        ELSE Let(FirstWhere(i, Len(s), LAMBDA k : CharAt(s, k) \in {"\"", "'", ","}), LAMBDA stop :
             Let(IF stop # 0 THEN stop - 1 ELSE Len(s), LAMBDA e :
                 [found |-> TRUE, term |-> Substring(s, i, e), next |-> e + 1])))

RECURSIVE parseAvoidTermsFrom(_, _)
parseAvoidTermsFrom(s, i) ==
    Let(i, LAMBDA from :
        IF from > Len(s) THEN <<>>
        ELSE Let(TermMatchAt(s, from), LAMBDA m :
             Let(trim(m.term), LAMBDA term :
                 (IF m.found /\ term # "" THEN <<term>> ELSE <<>>)
                 \o parseAvoidTermsFrom(s, m.next))))

\* a parser that splits the specification on its commas and knows no quotes
parseAvoidTermsSplit(thingsToAvoid) ==
    LET starts   == { k \in 1..(Len(thingsToAvoid) + 1) :
                        k = 1 \/ CharAt(thingsToAvoid, k - 1) = "," }
        start(n) == CHOOSE s \in starts : Cardinality({ t \in starts : t < s }) = n - 1
        stop(s)  == IF indexOfFrom(thingsToAvoid, ",", s) = 0 THEN Len(thingsToAvoid)
                    ELSE indexOfFrom(thingsToAvoid, ",", s) - 1
        pieces   == [n \in 1..Cardinality(starts) |->
                        trim(Substring(thingsToAvoid, start(n), stop(start(n))))]
    IN  SelectSeq(pieces, LAMBDA t : t # "")

parseAvoidTerms(thingsToAvoid) ==
    Let(thingsToAvoid, LAMBDA x : parseAvoidTermsFrom(x, 1))

(***************************************************************************)
(* JSON.parse on the texts removeProhibitedContent hands it.  The texts of *)
(* the model are made of brackets, commas, quotes, letters and blanks, so  *)
(* the values that can occur are arrays and strings without escapes; any   *)
(* other text is a SyntaxError.                                            *)
(***************************************************************************)
JsonFail == [ok |-> FALSE, next |-> 0, val |-> [t |-> "none", s |-> "", items |-> <<>>]]

RECURSIVE JsonValue(_, _)
RECURSIVE JsonElements(_, _, _)
JsonValue(s, i) ==
    Let(i, LAMBDA at :
        IF at > Len(s) THEN JsonFail
        ELSE IF CharAt(s, at) = "\""
        THEN Let(indexOfFrom(s, "\"", at + 1), LAMBDA close :
                 IF close = 0
                    \/ \E k \in (at + 1)..(close - 1) : CharAt(s, k) \in {"\n", "\t", "\r", "\\"}
                 THEN JsonFail
                 ELSE [ok |-> TRUE, next |-> close + 1,
                       val |-> [t |-> "string", s |-> Substring(s, at + 1, close - 1),
                                items |-> <<>>]])
        ELSE IF CharAt(s, at) = "["
        THEN Let(SpanEnd(s, at + 1, WhiteSpace) + 1, LAMBDA k :
                 IF k <= Len(s) /\ CharAt(s, k) = "]"
                 THEN [ok |-> TRUE, next |-> k + 1,
                       val |-> [t |-> "array", s |-> "", items |-> <<>>]]
                 ELSE JsonElements(s, k, <<>>))
        ELSE JsonFail)

JsonElements(s, i, acc) ==
    Let(acc, LAMBDA items :
    Let(JsonValue(s, i), LAMBDA v :
        IF ~v.ok THEN JsonFail
        ELSE Let(SpanEnd(s, v.next, WhiteSpace) + 1, LAMBDA k :
                 IF k > Len(s) THEN JsonFail
                 ELSE IF CharAt(s, k) = ","
                 THEN JsonElements(s, SpanEnd(s, k + 1, WhiteSpace) + 1, Append(items, v.val))
                 ELSE IF CharAt(s, k) = "]"
                 THEN [ok |-> TRUE, next |-> k + 1,
                       val |-> [t |-> "array", s |-> "", items |-> Append(items, v.val)]]
                 ELSE JsonFail)))

\* JSON.parse(text): ok is FALSE when it throws a SyntaxError
JSONParse(text) ==
    Let(text, LAMBDA x :
    Let(JsonValue(x, SpanEnd(x, 1, WhiteSpace) + 1), LAMBDA v :
        IF v.ok /\ SpanEnd(x, v.next, WhiteSpace) = Len(x) THEN v ELSE JsonFail))

(***************************************************************************)
(* removeProhibitedContent                                                 *)
(***************************************************************************)
\* term.replace(/^["'](.+)["']$/, '$1')
stripQuotes(term) ==
    Let(term, LAMBDA x :
        IF /\ Len(x) >= 3
           /\ CharAt(x, 1) \in {"\"", "'"}
           /\ CharAt(x, Len(x)) \in {"\"", "'"}
           /\ \A k \in 2..(Len(x) - 1) : CharAt(x, k) \notin {"\n", "\r"}
        THEN Substring(x, 2, Len(x) - 1)
        ELSE x)

\* avoidTerms.map(normalise).filter(term => term.length > 0)
normalizeTerms(terms) ==
    Let(terms, LAMBDA ts :
        SelectSeq([k \in 1..Len(ts) |-> toLowerCase(stripQuotes(trim(ts[k])))],
                  LAMBDA t : t # ""))

\* thingsToAvoid.trim().startsWith('[') && thingsToAvoid.trim().endsWith(']')
looksLikeArray(thingsToAvoid) ==
    Let(trim(thingsToAvoid), LAMBDA x : startsWith(x, "[") /\ endsWith(x, "]"))

\* the cleaned list avoidTerms the suppressor logs: [threw, terms].  A text in
\* brackets that JSON.parse accepts is the array; an element of it that is no
\* string has no trim method, and the map throws.  Any other text goes to
\* parseAvoidTerms.
avoidTermsOf(thingsToAvoid) ==
    Let(thingsToAvoid, LAMBDA x :
    Let(IF looksLikeArray(x) THEN JSONParse(x) ELSE JsonFail, LAMBDA parsed :
        IF ~parsed.ok
        THEN [threw |-> FALSE, terms |-> normalizeTerms(parseAvoidTerms(x))]
        ELSE IF \E k \in 1..Len(parsed.val.items) : parsed.val.items[k].t # "string"
        THEN [threw |-> TRUE, terms |-> <<>>]
        ELSE [threw |-> FALSE,
              terms |-> normalizeTerms([k \in 1..Len(parsed.val.items) |->
                                           parsed.val.items[k].s])]))

\* removeProhibitedContent(content, thingsToAvoid): [threw, val]
removeProhibitedContent(text, thingsToAvoid) ==
    Let(avoidTermsOf(thingsToAvoid), LAMBDA avoid :
        IF avoid.threw THEN [threw |-> TRUE, val |-> ""]
        ELSE [threw |-> FALSE, val |-> ReplaceTerms(text, avoid.terms)])

(***************************************************************************)
(* Harness for the pure functions: the arguments are drawn in the initial  *)
(* state and each action applies the function under test once.             *)
(***************************************************************************)
GeneratorIdle ==
    /\ pc = "idle"
    /\ promptSettings = Null
    /\ keyword = ""
    /\ calls = <<>>
    /\ parts = <<>>
    /\ content = ""
    /\ title = ""
    /\ outcome = [kind |-> "none"]

generatorVars == <<pc, promptSettings, keyword, calls, parts, content, title, outcome>>

MaxTextLen == 3

MaxSpecLen == 3

MaxParseLen == 4

InitSuppress ==
    /\ GeneratorIdle
    /\ fn = "removeProhibitedContent"
    /\ arg \in [text : StringsUpTo({"a", "A", " ", "]"}, MaxTextLen)
                         \cup {"a a a", "I like FOO and Bar Baz", "an [alternative] a",
                               "a[a"},
                 thingsToAvoid : StringsUpTo({"a", ",", " ", "]"}, MaxSpecLen)
                         \cup {"foo, \"bar baz\", qux", "alternative", "a a", "[[]]",
                               "[\"a\", \"]\"]", "[", "a,alternative"}]
    /\ ret = [stage |-> 0, threw |-> FALSE, terms |-> <<>>, first |-> "", second |-> ""]

\* removeProhibitedContent(text, thingsToAvoid)
Suppress ==
    /\ fn = "removeProhibitedContent"
    /\ ret.stage = 0
    /\ LET r == removeProhibitedContent(arg.text, arg.thingsToAvoid)
       IN  ret' = [stage |-> 1, threw |-> r.threw,
                   terms |-> avoidTermsOf(arg.thingsToAvoid).terms,
                   first |-> r.val, second |-> ""]
    /\ UNCHANGED <<fn, arg>>
    /\ UNCHANGED generatorVars

\* removeProhibitedContent(first, thingsToAvoid): the result suppressed again
SuppressAgain ==
    /\ fn = "removeProhibitedContent"
    /\ ret.stage = 1
    /\ ~ret.threw
    /\ ret' = [ret EXCEPT !.stage = 2,
                          !.second = removeProhibitedContent(ret.first, arg.thingsToAvoid).val]
    /\ UNCHANGED <<fn, arg>>
    /\ UNCHANGED generatorVars

NextSuppress == Suppress \/ SuppressAgain

SpecSuppress == InitSuppress /\ [][NextSuppress]_vars

InitParse ==
    /\ GeneratorIdle
    /\ fn = "removeProhibitedContent"
    /\ arg \in [text : {"A b"},
                 thingsToAvoid : StringsUpTo({"a", "B", " ", ",", "\"", "'"}, MaxParseLen)
                         \cup {"foo, \"bar baz\", qux", "[\"Foo\", \"'b c'\"]", "[a, b]",
                               "\"'a'\", 'B'"}]
    /\ ret = [stage |-> 0, threw |-> FALSE, terms |-> <<>>, first |-> "", second |-> ""]

SpecParse == InitParse /\ [][NextSuppress]_vars

(***************************************************************************)
(* Recipe Extractor: src/src/recipe-extraction.js.                         *)
(* Regex helpers shared by the sub-routines.                               *)
(***************************************************************************)
\* the value of a capture group that took no part in the match
Undefined == "\\undefined"

\* s has t at position i, letters compared without case (the i flag)
MatchesCI(s, i, t) ==
    i >= 1 /\ i + Len(t) - 1 <= Len(s) /\ toLowerCase(Substring(s, i, i + Len(t) - 1)) = t

MatchesCS(s, i, t) ==
    i >= 1 /\ i + Len(t) - 1 <= Len(s) /\ Substring(s, i, i + Len(t) - 1) = t

HasLineTerminator(s) == \E k \in 1..Len(s) : CharAt(s, k) \in {"\n", "\r"}

\* <h[2-3] at position i
IsHeadingOpen(s, i, ci) ==
    /\ i + 2 <= Len(s)
    /\ IF ci THEN MatchesCI(s, i, "<h") ELSE MatchesCS(s, i, "<h")
    /\ CharAt(s, i + 2) \in {"2", "3"}

\* <\/h[2-3]> at position i
IsHeadingClose(s, i, ci) ==
    /\ i + 4 <= Len(s)
    /\ IF ci THEN MatchesCI(s, i, "</h") ELSE MatchesCS(s, i, "</h")
    /\ CharAt(s, i + 3) \in {"2", "3"}
    /\ CharAt(s, i + 4) = ">"

\* The heading alternatives of the four section patterns, as tests of the
\* lower-cased heading text t: [^<]*A|B|C|D[^<]* reads "ends with A, or is
\* exactly B or C, or starts with D".
HeadingTest(kind, t) ==
    CASE kind = "ingredients"  ->
            endsWith(t, "ingredients") \/ startsWith(t, "ingredients")
      [] kind = "instructions" ->
            \/ endsWith(t, "instructions")
            \/ t \in {"directions", "method", "steps"}
            \/ startsWith(t, "how to")
      [] kind = "notes"        ->
            \/ endsWith(t, "notes")
            \/ t \in {"tips", "additional"}
            \/ startsWith(t, "advice")
      [] kind = "nutrition"    ->
            \/ endsWith(t, "nutrition")
            \/ t = "nutritional"
            \/ startsWith(t, "nutrients")

NoSection == [found |-> FALSE, body |-> ""]

\* The pattern
\*   (?:<h[2-3][^>]*>(?:...)<\/h[2-3]>)([\s\S]*?)(?:<h[2-3]|<\/body)   /i
\* tried at position i: the opening tag runs to the first >, the heading text
\* to the first <, the closing tag follows it, and group 1 runs lazily to the
\* first section end.  [found, body]
SectionAt(s, i, kind) ==
    IF ~IsHeadingOpen(s, i, TRUE) THEN NoSection
    ELSE Let(indexOfFrom(s, ">", i + 3), LAMBDA gt :
         IF gt = 0 THEN NoSection
         ELSE Let(indexOfFrom(s, "<", gt + 1), LAMBDA lt :
              IF \/ lt = 0
                 \/ ~IsHeadingClose(s, lt, TRUE)
                 \/ ~Let(toLowerCase(Substring(s, gt + 1, lt - 1)),
                         LAMBDA text : HeadingTest(kind, text))
              THEN NoSection
              ELSE Let(FirstWhere(lt + 5, Len(s), LAMBDA k : \/ IsHeadingOpen(s, k, TRUE)
                                                            \/ MatchesCI(s, k, "</body")),
                       LAMBDA stop :
                   IF stop = 0 THEN NoSection
                   ELSE [found |-> TRUE, body |-> Substring(s, lt + 5, stop - 1)])))

\* content.match(<section pattern>): the match at the first position that has one
matchSection(s, kind) ==
    Let(s, LAMBDA x :
    Let(FirstWhere(1, Len(x), LAMBDA k : SectionAt(x, k, kind).found), LAMBDA hit :
        IF hit = 0 THEN NoSection ELSE SectionAt(x, hit, kind)))

NoList == [found |-> FALSE, inner |-> "", whole |-> "", next |-> 0]

\* the first <TAG> at or behind from that a </TAG> follows, in the text hay
\* whose letters stand as the pattern compares them; the match is cut from s
ListIn(s, hay, from, tag) ==
    Let(indexOfFrom(hay, "<" \o tag \o ">", from), LAMBDA o :
        IF o = 0 THEN NoList
        ELSE Let(indexOfFrom(hay, "</" \o tag \o ">", o + 4), LAMBDA c :
             IF c = 0 THEN NoList
             ELSE [found |-> TRUE, inner |-> Substring(s, o + 4, c - 1),
                   whole |-> Substring(s, o, c + 4), next |-> c + 5]))

\* s.match(/<TAG>([\s\S]*?)<\/TAG>/) for TAG ul or ol, with the i flag when ci:
\* [found, inner, whole, next]
FirstList(s, from, tag, ci) ==
    Let(s, LAMBDA x : Let(IF ci THEN toLowerCase(x) ELSE x, LAMBDA hay : ListIn(x, hay, from, tag)))

\* s.match(/<TAG>([\s\S]*?)<\/TAG>/g): every match, as the matched text
RECURSIVE AllLists(_, _, _)
AllLists(s, from, tag) ==
    Let(ListIn(s, s, from, tag), LAMBDA m :
        IF m.found THEN <<m.whole>> \o AllLists(s, m.next, tag) ELSE <<>>)

\* s.match(/<p>(.*?)<\/p>/g): every match, as the matched text.  The dot
\* stops at a line terminator, so a <p> whose first </p> lies behind one is
\* passed over.
RECURSIVE AllParagraphs(_, _)
AllParagraphs(s, from) ==
    Let(indexOfFrom(s, "<p>", from), LAMBDA o :
        IF o = 0 THEN <<>>
        ELSE Let(indexOfFrom(s, "</p>", o + 3), LAMBDA c :
             IF c = 0 THEN <<>>
             ELSE IF HasLineTerminator(Substring(s, o + 3, c - 1))
             THEN AllParagraphs(s, o + 1)
             ELSE <<Substring(s, o, c + 3)>> \o AllParagraphs(s, c + 4)))

\* p.replace(/<\/?p>/g, '')
RECURSIVE stripParagraphTags(_)
stripParagraphTags(s) ==
    Let(s, LAMBDA x :
    Let(indexOfFrom(x, "<p>", 1), LAMBDA o :
    Let(indexOfFrom(x, "</p>", 1), LAMBDA c :
        IF o = 0 /\ c = 0 THEN x
        ELSE IF c = 0 \/ (o # 0 /\ o < c)
        THEN Substring(x, 1, o - 1) \o stripParagraphTags(RestFrom(x, o + 3))
        ELSE Substring(x, 1, c - 1) \o stripParagraphTags(RestFrom(x, c + 4)))))

(***************************************************************************)
(* The extraction sub-routines.                                            *)
(***************************************************************************)
\* description.substring(0, 297) + '...' when description is too long
limitDescription(description) ==
    Let(description, LAMBDA d :
        IF Len(d) > 300 THEN Substring(d, 1, 297) \o "..." ELSE d)

extractDescription(html) ==
    Let(AllParagraphs(html, 1), LAMBDA paragraphs :
        IF Len(paragraphs) = 0 THEN "A delicious and easy recipe that everyone will love."
        ELSE Let(stripParagraphTags(paragraphs[1]), LAMBDA first :
                 IF Len(first) < 50 /\ Len(paragraphs) > 1
                 THEN limitDescription(stripParagraphTags(paragraphs[2]))
                 ELSE limitDescription(first)))

\* s.split(/<br\s*\/?>/): the separator at position i ends at BreakEnd, 0 if none
BreakEnd(s, i) ==
    IF ~MatchesCS(s, i, "<br") THEN 0
    ELSE Let(SpanEnd(s, i + 3, WhiteSpace) + 1, LAMBDA a :
         Let(IF a <= Len(s) /\ CharAt(s, a) = "/" THEN a + 1 ELSE a, LAMBDA b :
             IF b <= Len(s) /\ CharAt(s, b) = ">" THEN b ELSE 0))

RECURSIVE splitOnBreaks(_, _)
splitOnBreaks(s, start) ==
    Let(start, LAMBDA from :
    Let(FirstWhere(from, Len(s), LAMBDA k : BreakEnd(s, k) # 0), LAMBDA b :
        IF b = 0 THEN <<RestFrom(s, from)>>
        ELSE <<Substring(s, from, b - 1)>> \o splitOnBreaks(s, BreakEnd(s, b) + 1)))

\* the <li> items of the lines of the ingredients section; a line that is
\* empty, starts with <, ends with > or is no longer than 3 gives none
ingredientItems(lines) ==
    Join([k \in 1..Len(lines) |->
            Let(trim(lines[k]), LAMBDA line :
                IF /\ line # ""
                   /\ ~startsWith(line, "<")
                   /\ ~endsWith(line, ">")
                   /\ Len(line) > 3
                THEN "<li>" \o line \o "</li>" ELSE "")], "")

\* the first list with a measure word, ingredients itself when there is none
firstMeasuredList(lists, ingredients) ==
    Let(<<"cup", "teaspoon", "tablespoon", "ounce", "pound">>, LAMBDA words :
    Let({ k \in 1..Len(lists) :
            \E w \in 1..Len(words) : includes(toLowerCase(lists[k]), words[w]) }, LAMBDA hits :
        IF hits = {} THEN ingredients ELSE lists[MinOf(hits)]))

IngredientsFallback == "<ul><li>Ingredient 1</li><li>Ingredient 2</li><li>Ingredient 3</li></ul>"

\* !list || list === "<TAG></TAG>"
IsEmptyList(s, tag) == s = "" \/ s = "<" \o tag \o "></" \o tag \o ">"

\* scoped: ingredients after the look into the section behind the ingredients
\* heading; anywhere: after the look at the lists anywhere in the content
extractIngredients(html) ==
    Let(matchSection(html, "ingredients"), LAMBDA section :
    Let(IF ~section.found \/ section.body = "" THEN ""
        ELSE Let(FirstList(section.body, 1, "ul", TRUE), LAMBDA ulMatch :
             IF ulMatch.found /\ ulMatch.inner # ""
             THEN "<ul>" \o ulMatch.inner \o "</ul>"
             ELSE Let(splitOnBreaks(section.body, 1), LAMBDA lines :
                  IF Len(lines) > 2 THEN "<ul>" \o ingredientItems(lines) \o "</ul>" ELSE "")),
        LAMBDA scoped :
    Let(IF ~IsEmptyList(scoped, "ul") THEN scoped
        ELSE firstMeasuredList(AllLists(html, 1, "ul"), scoped), LAMBDA anywhere :
        IF IsEmptyList(anywhere, "ul") THEN IngredientsFallback ELSE anywhere)))

\* text.replace(/^\d+[\.\)\-]+\s*/, '')
stripLeadingNumber(text) ==
    Let(SpanEnd(text, 1, DigitSet), LAMBDA d :
    Let(SpanEnd(text, d + 1, {".", ")", "-"}), LAMBDA m :
        IF d >= 1 /\ m > d THEN RestFrom(text, SpanEnd(text, m + 1, WhiteSpace) + 1) ELSE text))

\* the <li> items of the paragraphs of a section; a paragraph whose text is no
\* longer than 5 gives none, and numbered leaves the leading number out
sectionItems(paragraphs, numbered) ==
    Join([k \in 1..Len(paragraphs) |->
            Let(trim(stripParagraphTags(paragraphs[k])), LAMBDA text :
                IF text # "" /\ Len(text) > 5
                THEN "<li>" \o (IF numbered THEN stripLeadingNumber(text) ELSE text) \o "</li>"
                ELSE "")], "")

InstructionsFallback == "<ol><li>Step 1</li><li>Step 2</li><li>Step 3</li></ol>"

\* scoped: instructions after the look into the section behind the instructions
\* heading; anywhere: after the look at the ordered lists anywhere in the content
extractInstructions(html) ==
    Let(matchSection(html, "instructions"), LAMBDA section :
    Let(IF ~section.found \/ section.body = "" THEN ""
        ELSE Let(FirstList(section.body, 1, "ol", TRUE), LAMBDA olMatch :
             IF olMatch.found /\ olMatch.inner # ""
             THEN "<ol>" \o olMatch.inner \o "</ol>"
             ELSE Let(AllParagraphs(section.body, 1), LAMBDA paragraphs :
                  IF Len(paragraphs) > 1
                  THEN "<ol>" \o sectionItems(paragraphs, TRUE) \o "</ol>" ELSE "")),
        LAMBDA scoped :
    Let(IF ~IsEmptyList(scoped, "ol") THEN scoped
        ELSE Let(AllLists(html, 1, "ol"), LAMBDA allOrderedLists :
                 \* the longest list, the earliest among equally long ones
                 IF Len(allOrderedLists) > 0
                 THEN allOrderedLists[MinOf({ k \in 1..Len(allOrderedLists) :
                         \A j \in 1..Len(allOrderedLists) :
                             Len(allOrderedLists[j]) <= Len(allOrderedLists[k]) })]
                 ELSE scoped),
        LAMBDA anywhere :
        IF IsEmptyList(anywhere, "ol") THEN InstructionsFallback ELSE anywhere)))

extractNotes(html) ==
    Let(matchSection(html, "notes"), LAMBDA section :
    Let(IF ~section.found \/ section.body = "" THEN ""
        ELSE Let(FirstList(section.body, 1, "ul", TRUE), LAMBDA ulMatch :
             IF ulMatch.found /\ ulMatch.inner # ""
             THEN "<ul>" \o ulMatch.inner \o "</ul>"
             ELSE Let(AllParagraphs(section.body, 1), LAMBDA paragraphs :
                  IF Len(paragraphs) > 0
                  THEN "<ul>" \o sectionItems(paragraphs, FALSE) \o "</ul>" ELSE "")),
        LAMBDA notes :
        IF notes = ""
        THEN "<ul><li>For best results, let the dish rest for 5 minutes before serving.</li></ul>"
        ELSE notes))

(***************************************************************************)
(* extractTime: /<word>(?:<suffix>)?\s+time:?\s*(\d+)(?:\s+to\s+(\d+))?\s+ *)
(* (minutes|hours)/ on the lower-cased content.                            *)
(***************************************************************************)
\* \s+ at position i: the position behind it, 0 when there is no white space
SkipSpaces1(s, i) ==
    Let(SpanEnd(s, i, WhiteSpace), LAMBDA e : IF e >= i THEN e + 1 ELSE 0)

\* \s+(minutes|hours) behind position e, "" when it is not there
UnitBehind(s, e) ==
    Let(SkipSpaces1(s, e + 1), LAMBDA u :
        IF u = 0 THEN ""
        ELSE IF MatchesCS(s, u, "minutes") THEN "minutes"
        ELSE IF MatchesCS(s, u, "hours") THEN "hours"
        ELSE "")

\* (?:\s+to\s+(\d+)) behind position e: the last position of it, 0 when it is
\* not there
RangeEnd(s, e) ==
    Let(SkipSpaces1(s, e + 1), LAMBDA t1 :
        IF t1 = 0 \/ ~MatchesCS(s, t1, "to") THEN 0
        ELSE Let(SkipSpaces1(s, t1 + 2), LAMBDA t2 :
             IF t2 = 0 THEN 0
             ELSE Let(SpanEnd(s, t2, DigitSet), LAMBDA t3 : IF t3 >= t2 THEN t3 ELSE 0)))

NoTime == [found |-> FALSE, time |-> "", unit |-> ""]

\* (\d+)(?:\s+to\s+(\d+))?\s+(minutes|hours) with the digits at d..e: the
\* range is tried first, then the pattern without it
TimeValueAt(s, d, e) ==
    Let(RangeEnd(s, e), LAMBDA r :
    Let(IF r # 0 /\ UnitBehind(s, r) # "" THEN UnitBehind(s, r) ELSE UnitBehind(s, e), LAMBDA unit :
        IF unit # "" THEN [found |-> TRUE, time |-> Substring(s, d, e), unit |-> unit]
        ELSE NoTime))

\* the part of the pattern behind the word and its optional suffix, tried at
\* position i: [found, time, unit]
TimeTailAt(s, i) ==
    Let(SkipSpaces1(s, i), LAMBDA a :
        IF a = 0 \/ ~MatchesCS(s, a, "time") THEN NoTime
        ELSE Let(IF a + 4 <= Len(s) /\ CharAt(s, a + 4) = ":" THEN a + 5 ELSE a + 4, LAMBDA c :
             Let(SpanEnd(s, c, WhiteSpace) + 1, LAMBDA d :
             Let(SpanEnd(s, d, DigitSet), LAMBDA e :
                 IF e >= d THEN TimeValueAt(s, d, e) ELSE NoTime))))

TimeAt(s, i, word, suffix) ==
    IF ~MatchesCS(s, i, word) THEN NoTime
    ELSE IF suffix # "" /\ MatchesCS(s, i + Len(word), suffix)
                        /\ TimeTailAt(s, i + Len(word) + Len(suffix)).found
         THEN TimeTailAt(s, i + Len(word) + Len(suffix))
         ELSE TimeTailAt(s, i + Len(word))

\* lowerContent.match(<the pattern of timeType>): the match at the first
\* position that has one
matchTime(lowerContent, timeType) ==
    Let(CASE timeType = "prep"  -> <<"prep", "aration">>
          [] timeType = "cook"  -> <<"cook", "ing">>
          [] timeType = "total" -> <<"total", "">>, LAMBDA pattern :
    Let(FirstWhere(1, Len(lowerContent),
                   LAMBDA k : TimeAt(lowerContent, k, pattern[1], pattern[2]).found), LAMBDA hit :
        IF hit = 0 THEN NoTime ELSE TimeAt(lowerContent, hit, pattern[1], pattern[2])))

\* extractTime without its defaults: a miss falls off the end of the function
extractTimeNoDefault(html, timeType) ==
    Let(toLowerCase(html), LAMBDA lowerContent :
    Let(matchTime(lowerContent, timeType), LAMBDA timeMatch :
        IF timeMatch.found THEN timeMatch.time \o " " \o timeMatch.unit ELSE Undefined))

extractTime(html, timeType) ==
    Let(toLowerCase(html), LAMBDA lowerContent :
    Let(matchTime(lowerContent, timeType), LAMBDA timeMatch :
        IF timeMatch.found THEN timeMatch.time \o " " \o timeMatch.unit
        ELSE CASE timeType = "prep"  -> "15 minutes"
               [] timeType = "cook"  -> "30 minutes"
               [] timeType = "total" -> "45 minutes"))

(***************************************************************************)
(* extractYield: /(?:serves|servings|yield|makes):\s*(\d+)(?:\s*-\s*(\d+))?/*)
(***************************************************************************)
NoYield == [found |-> FALSE, low |-> "", high |-> Undefined]

\* (?:\s*-\s*(\d+)) behind position e: the digits, Undefined when the range
\* takes no part
YieldHigh(s, e) ==
    Let(SpanEnd(s, e + 1, WhiteSpace) + 1, LAMBDA r1 :
        IF r1 > Len(s) \/ CharAt(s, r1) # "-" THEN Undefined
        ELSE Let(SpanEnd(s, r1 + 1, WhiteSpace) + 1, LAMBDA r2 :
             Let(SpanEnd(s, r2, DigitSet), LAMBDA r3 :
                 IF r3 >= r2 THEN Substring(s, r2, r3) ELSE Undefined)))

\* [found, low, high]; high is Undefined when the range took no part
YieldAt(s, i) ==
    Let(<<"serves", "servings", "yield", "makes">>, LAMBDA words :
    Let({ k \in 1..Len(words) : MatchesCS(s, i, words[k] \o ":") }, LAMBDA hits :
        IF hits = {} THEN NoYield
        ELSE Let(SpanEnd(s, i + Len(words[MinOf(hits)]) + 1, WhiteSpace) + 1, LAMBDA d :
             Let(SpanEnd(s, d, DigitSet), LAMBDA e :
                 IF e >= d
                 THEN [found |-> TRUE, low |-> Substring(s, d, e), high |-> YieldHigh(s, e)]
                 ELSE NoYield))))

extractYield(html) ==
    Let(toLowerCase(html), LAMBDA lowerContent :
    Let(FirstWhere(1, Len(lowerContent), LAMBDA k : YieldAt(lowerContent, k).found), LAMBDA hit :
    Let(IF hit = 0 THEN NoYield ELSE YieldAt(lowerContent, hit), LAMBDA servingsMatch :
        IF servingsMatch.found
        THEN IF servingsMatch.high # Undefined
             THEN servingsMatch.low \o "-" \o servingsMatch.high \o " servings"
             ELSE servingsMatch.low \o " servings"
        ELSE "4 servings")))

(***************************************************************************)
(* determineCategory, determineMethod, determineCuisine, determineDiet.    *)
(* The content of the model is ASCII, so the three terms of the source     *)
(* that hold an accented letter (entree, saute and souffle written with an *)
(* acute e) cannot occur in it and are left out of the tables.             *)
(***************************************************************************)
IncludesAny(s, terms) == \E k \in 1..Len(terms) : includes(s, terms[k])

\* the name of the first row of table with a term in content or in key
FirstRow(table, lowerContent, lowerKey, default) ==
    Let({ k \in 1..Len(table) : \/ IncludesAny(lowerContent, table[k].terms)
                                \/ IncludesAny(lowerKey, table[k].keyTerms) }, LAMBDA hits :
        IF hits = {} THEN default ELSE table[MinOf(hits)].name)

\* a row whose terms are looked for in the content, and in the keyword too
\* when inKeyword
Row(name, terms, inKeyword) ==
    [name |-> name, terms |-> terms, keyTerms |-> IF inKeyword THEN terms ELSE <<>>]

determineCategory(html, key) ==
    Let(toLowerCase(html), LAMBDA lowerContent :
    Let(toLowerCase(key), LAMBDA lowerKeyword :
        FirstRow(
            << [name |-> "Breakfast",   terms |-> <<"breakfast", "morning meal">>,
                keyTerms |-> <<"breakfast">>],
               [name |-> "Appetizer",   terms |-> <<"appetizer", "starter", "hors d'oeuvre">>,
                keyTerms |-> <<"appetizer">>],
               [name |-> "Main Course", terms |-> <<"main course", "dinner", "entree">>,
                keyTerms |-> <<>>],
               [name |-> "Dessert",     terms |-> <<"dessert", "sweet", "cake", "cookie", "pie">>,
                keyTerms |-> <<"dessert">>],
               [name |-> "Side Dish",   terms |-> <<"side dish", "accompaniment">>,
                keyTerms |-> <<"side">>],
               [name |-> "Soup",        terms |-> <<"soup", "stew", "broth">>,
                keyTerms |-> <<"soup">>],
               [name |-> "Salad",       terms |-> <<"salad">>,
                keyTerms |-> <<"salad">>],
               [name |-> "Drink",       terms |-> <<"drink", "beverage", "cocktail", "smoothie">>,
                keyTerms |-> <<>>] >>,
            lowerContent, lowerKeyword, "Main Course")))

determineMethod(html) ==
    Let(toLowerCase(html), LAMBDA lowerContent :
        FirstRow(
            << Row("Baking", <<"bake", "roast", "oven">>, FALSE),
               Row("Boiling", <<"boil", "blanch">>, FALSE),
               Row("Grilling", <<"grill", "barbecue", "bbq">>, FALSE),
               Row("Slow Cooking", <<"slow cooker", "crockpot">>, FALSE),
               Row("Pressure Cooking", <<"pressure cooker", "instant pot">>, FALSE),
               Row("Steaming", <<"steam">>, FALSE),
               Row("Frying", <<"fry", "saute">>, FALSE),
               Row("No-Cook", <<"no cook", "no-cook", "raw">>, FALSE) >>,
            lowerContent, "", "Cooking"))

determineCuisine(html, key) ==
    Let(toLowerCase(html), LAMBDA lowerContent :
    Let(toLowerCase(key), LAMBDA lowerKeyword :
        FirstRow(
            << Row("Italian", <<"italian", "pasta", "pizza", "risotto", "lasagna">>, TRUE),
               Row("Mexican", <<"mexican", "taco", "burrito", "enchilada", "quesadilla",
                                "salsa">>, TRUE),
               Row("Chinese", <<"chinese", "stir fry", "stir-fry", "wok", "dim sum",
                                "dumpling">>, TRUE),
               Row("Indian", <<"indian", "curry", "masala", "tandoori", "naan">>, TRUE),
               Row("French", <<"french", "ratatouille", "croissant", "souffle">>, TRUE),
               Row("Thai", <<"thai", "pad thai", "curry", "tom yum">>, TRUE),
               Row("Japanese", <<"japanese", "sushi", "teriyaki", "miso", "tempura">>, TRUE),
               Row("Mediterranean", <<"mediterranean", "greek", "hummus", "falafel",
                                      "olive oil">>, TRUE),
               Row("American", <<"american", "burger", "hot dog", "mac and cheese",
                                 "barbecue">>, TRUE) >>,
            lowerContent, lowerKeyword, "American")))

determineDiet(html) ==
    Let(toLowerCase(html), LAMBDA lowerContent :
        FirstRow(
            << Row("Vegan", <<"vegan", "plant-based", "no animal products">>, FALSE),
               Row("Vegetarian", <<"vegetarian", "no meat", "meatless">>, FALSE),
               Row("Gluten Free", <<"gluten-free", "gluten free", "without gluten">>, FALSE),
               Row("Low Calorie", <<"low calorie", "low-calorie", "diet", "light">>, FALSE),
               Row("Low Fat", <<"low fat", "low-fat", "fat free">>, FALSE),
               Row("Low Salt", <<"low salt", "low-salt", "low sodium">>, FALSE),
               Row("Diabetic", <<"diabetic", "diabetes", "low sugar", "sugar-free">>, FALSE),
               Row("Kosher", <<"kosher", "jewish dietary laws">>, FALSE),
               Row("Halal", <<"halal", "islamic dietary laws">>, FALSE) >>,
            lowerContent, "", ""))

(***************************************************************************)
(* extractKeywords                                                         *)
(***************************************************************************)
\* /<h[2-3][^>]*>(.*?)<\/h[2-3]>/ tried at position i: the last position of
\* the match, 0 when there is none
HeaderEnd(s, i) ==
    IF ~IsHeadingOpen(s, i, FALSE) THEN 0
    ELSE Let(indexOfFrom(s, ">", i + 3), LAMBDA gt :
         IF gt = 0 THEN 0
         ELSE Let(FirstWhere(gt + 1, Len(s), LAMBDA k : IsHeadingClose(s, k, FALSE)), LAMBDA c :
              IF c # 0 /\ ~HasLineTerminator(Substring(s, gt + 1, c - 1)) THEN c + 4 ELSE 0))

\* content.match(/<h[2-3][^>]*>(.*?)<\/h[2-3]>/g): every match, as the text
RECURSIVE AllHeaders(_, _)
AllHeaders(s, i) ==
    Let(FirstWhere(i, Len(s), LAMBDA k : HeaderEnd(s, k) # 0), LAMBDA hit :
        IF hit = 0 THEN <<>>
        ELSE Let(HeaderEnd(s, hit), LAMBDA end :
                 <<Substring(s, hit, end)>> \o AllHeaders(s, end + 1)))

\* <\/?h[2-3][^>]*> at position i: the position of its >, 0 when it is not there
HeadingTagEnd(s, i) ==
    Let(IF MatchesCS(s, i, "</h") THEN i + 3
        ELSE IF MatchesCS(s, i, "<h") THEN i + 2 ELSE 0, LAMBDA digit :
        IF digit # 0 /\ digit <= Len(s) /\ CharAt(s, digit) \in {"2", "3"}
        THEN indexOfFrom(s, ">", digit + 1) ELSE 0)

\* header.replace(/<\/?h[2-3][^>]*>/g, '')
RECURSIVE stripHeadingTags(_)
stripHeadingTags(s) ==
    Let(s, LAMBDA x :
    Let(FirstWhere(1, Len(x), LAMBDA k : HeadingTagEnd(x, k) # 0), LAMBDA hit :
        IF hit = 0 THEN x
        ELSE Substring(x, 1, hit - 1)
             \o stripHeadingTags(RestFrom(x, HeadingTagEnd(x, hit) + 1))))

\* what the headers add to keywordsStr: the text of each that is not empty
\* and does not name a section
headerKeywords(headers) ==
    Join([k \in 1..Len(headers) |->
            Let(trim(stripHeadingTags(headers[k])), LAMBDA text :
                IF /\ text # ""
                   /\ ~IncludesAny(toLowerCase(text),
                                   <<"ingredients", "instructions", "steps", "notes", "tips">>)
                THEN ", " \o text ELSE "")], "")

CommonKeywords ==
    <<"homemade", "easy", "delicious", "quick", "healthy",
      "family", "dinner", "recipe", "best", "traditional">>

RECURSIVE addCommonKeywords(_, _, _)
addCommonKeywords(keywordsStr, lowerContent, k) ==
    Let(keywordsStr, LAMBDA str :
        IF k > Len(CommonKeywords) THEN str
        ELSE IF includes(lowerContent, CommonKeywords[k]) /\ ~includes(str, CommonKeywords[k])
        THEN addCommonKeywords(str \o ", " \o CommonKeywords[k], lowerContent, k + 1)
        ELSE addCommonKeywords(str, lowerContent, k + 1))

\* the result is keywordsStr.replace(/^,\s*/, '')
extractKeywords(html) ==
    Let(toLowerCase(html), LAMBDA lowerContent :
    Let(AllHeaders(html, 1), LAMBDA headers :
    Let(addCommonKeywords(headerKeywords(headers), lowerContent, 1), LAMBDA keywordsStr :
        IF startsWith(keywordsStr, ",")
        THEN RestFrom(keywordsStr, SpanEnd(keywordsStr, 2, WhiteSpace) + 1)
        ELSE keywordsStr)))

(***************************************************************************)
(* extractNutrition                                                        *)
(***************************************************************************)
NoAmount == [found |-> FALSE, value |-> ""]

\* :?\s*(\d+\.?\d*)\s*(unit|...) at position i; with units = <<>> the tail is
\* :?\s*(\d+).  [found, value]
AmountAt(s, i, units) ==
    Let(IF i <= Len(s) /\ CharAt(s, i) = ":" THEN i + 1 ELSE i, LAMBDA c :
    Let(SpanEnd(s, c, WhiteSpace) + 1, LAMBDA d :
    Let(SpanEnd(s, d, DigitSet), LAMBDA e :
    Let(IF units # <<>> /\ e + 1 <= Len(s) /\ CharAt(s, e + 1) = "." THEN e + 1 ELSE e, LAMBDA f :
    Let(IF units # <<>> THEN SpanEnd(s, f + 1, DigitSet) ELSE e, LAMBDA g :
    Let(SpanEnd(s, g + 1, WhiteSpace) + 1, LAMBDA h :
        IF e >= d /\ (units = <<>> \/ \E k \in 1..Len(units) : MatchesCS(s, h, units[k]))
        THEN [found |-> TRUE, value |-> Substring(s, d, g)]
        ELSE NoAmount))))))

\* the first alternative of words that matches at i with its amount behind it
LabelledAmountAt(s, i, words, units) ==
    Let({ k \in 1..Len(words) : /\ MatchesCS(s, i, words[k])
                                /\ AmountAt(s, i + Len(words[k]), units).found },
        LAMBDA hits :
        IF hits = {} THEN NoAmount
        ELSE Let(MinOf(hits), LAMBDA k : AmountAt(s, i + Len(words[k]), units)))

\* nutrition[field] after the section scan: the amount of the first match
\* with its suffix, or ""
Nutrient(scan, section, words, units, suffix) ==
    IF ~scan THEN ""
    ELSE Let(FirstWhere(1, Len(section),
                        LAMBDA k : LabelledAmountAt(section, k, words, units).found), LAMBDA hit :
             IF hit = 0 THEN ""
             ELSE LabelledAmountAt(section, hit, words, units).value \o suffix)

OrDefault(value, default) == Let(value, LAMBDA v : IF v = "" THEN default ELSE v)

extractNutrition(html) ==
    Let(matchSection(html, "nutrition"), LAMBDA nutritionSection :
    Let(nutritionSection.found /\ nutritionSection.body # "", LAMBDA scan :
    Let(toLowerCase(nutritionSection.body), LAMBDA section :
    Let(<<"g", "grams">>, LAMBDA g :
    Let(<<"mg", "milligrams">>, LAMBDA mg :
        [ServingSize    |-> "1 serving",
         Calories       |-> OrDefault(Nutrient(scan, section, <<"calories">>, <<>>, ""), "250"),
         Sugar          |-> Nutrient(scan, section, <<"sugar">>, g, "g"),
         Sodium         |-> Nutrient(scan, section, <<"sodium">>, mg, "mg"),
         Fat            |-> OrDefault(Nutrient(scan, section, <<"fat">>, g, "g"), "10g"),
         SaturatedFat   |-> "",
         UnsaturatedFat |-> "",
         TransFat       |-> "",
         Carbohydrates  |-> OrDefault(Nutrient(scan, section, <<"carbohydrates", "carbs">>,
                                               g, "g"), "30g"),
         Fiber          |-> Nutrient(scan, section, <<"fiber">>, g, "g"),
         Protein        |-> OrDefault(Nutrient(scan, section, <<"protein">>, g, "g"), "15g"),
         Cholesterol    |-> Nutrient(scan, section, <<"cholesterol">>, mg, "mg")])))))

(***************************************************************************)
(* extractRecipeData                                                       *)
(***************************************************************************)
recipeIndicators ==
    <<"ingredients", "instructions", "preparation", "minutes",
      "cook time", "prep time", "servings", "recipe", "tablespoon",
      "teaspoon", "cup", "bake", "fry", "boil", "simmer">>

indicatorCount(html) ==
    Let(toLowerCase(html), LAMBDA lowerContent :
        Cardinality({ k \in 1..Len(recipeIndicators) :
                        includes(lowerContent, recipeIndicators[k]) }))

SubRoutines ==
    {"extractDescription", "extractIngredients", "extractInstructions", "extractNotes",
     "extractTime", "extractYield", "determineCategory", "determineMethod",
     "determineCuisine", "determineDiet", "extractKeywords", "extractNutrition"}

\* the record extractRecipeData builds behind the gate
recipeRecord(html, key) ==
    [isNull       |-> FALSE,
     Description  |-> extractDescription(html),
     Ingredients  |-> extractIngredients(html),
     Instructions |-> extractInstructions(html),
     Notes        |-> extractNotes(html),
     Details      |-> [PrepTime  |-> extractTime(html, "prep"),
                       CookTime  |-> extractTime(html, "cook"),
                       TotalTime |-> extractTime(html, "total"),
                       Yield     |-> extractYield(html),
                       Category  |-> determineCategory(html, key),
                       Method    |-> determineMethod(html),
                       Cuisine   |-> determineCuisine(html, key),
                       Diet      |-> determineDiet(html)],
     Keywords     |-> key \o extractKeywords(html),
     Nutrition    |-> extractNutrition(html)]

extractRecipeDataGateTwo(html, key) ==
    Let(html, LAMBDA c :
        IF indicatorCount(c) < 2
        THEN [recipeData |-> Null, ran |-> {}]
        ELSE [recipeData |-> recipeRecord(c, key), ran |-> SubRoutines])

\* extractRecipeData(content, keyword): the value returned and the
\* sub-routines that ran
extractRecipeData(html, key) ==
    Let(html, LAMBDA c :
        IF indicatorCount(c) < 3
        THEN [recipeData |-> Null, ran |-> {}]
        ELSE [recipeData |-> recipeRecord(c, key), ran |-> SubRoutines])

(***************************************************************************)
(* Harness for extractRecipeData: the content is a run of HTML fragments. *)
(***************************************************************************)
MaxFragments == 2

HtmlFragments ==
    {"<h2>Ingredients</h2><ul><li>1 cup flour</li></ul>",
     "<h2>Instructions</h2><ol><li>Bake 20 minutes</li></ol>",
     "<p></p>",
     "<p>Prep Time: 10 minutes. Serves: 4-6</p>",
     "<h3>Tips</h3><p>Simmer it slowly</p>",
     "<h2>Nutrition</h2><p>Calories: 120, Fat: 3.5 g</p>",
     "<p>An easy soup recipe: boil, then fry.</p>",
     "<h2>About</h2>",
     "<h2>Ingredients</h2>2 eggs<br>1 cup milk<br/>salt",
     "<h2>Method</h2><p>1. Mix well</p><p>2) Bake it now</p>"}

InitExtract ==
    /\ GeneratorIdle
    /\ fn = "extractRecipeData"
    /\ arg \in [html : StringsUpTo(HtmlFragments, MaxFragments),
                 keyword : {"apple pie", "side salad"}]
    /\ ret = [stage |-> 0, recipeData |-> Null, ran |-> {}]

\* extractRecipeData(html, keyword)
Extract ==
    /\ fn = "extractRecipeData"
    /\ ret.stage = 0
    /\ \E r \in {extractRecipeData(arg.html, arg.keyword)} :
          ret' = [stage |-> 1, recipeData |-> r.recipeData, ran |-> r.ran]
    /\ UNCHANGED <<fn, arg>>
    /\ UNCHANGED generatorVars

SpecExtract == InitExtract /\ [][Extract]_vars

(***************************************************************************)
(* Article Generator: src/src/openai.js, generateArticleContent,           *)
(* generateMultiPartArticle and generateArticlePart.  One invocation runs  *)
(* from its call to its return or throw; every await of a completion call  *)
(* is a position of pc, and the call awaited is the last entry of calls.   *)
(***************************************************************************)
\* promptSettings && promptSettings.useMultiPartGeneration
useMultiPart(ps) == ~ps.isNull /\ ps.useMultiPartGeneration

\* a generator that never post-processes what the service returns
neverSuppress(ps) == FALSE

\* promptSettings && promptSettings.thingsToAvoid
hasThingsToAvoid(ps) == ~ps.isNull /\ ps.thingsToAvoid # ""

\* a generator that runs the extractor whatever the settings say
detectionAlways(ps) == TRUE

\* promptSettings && promptSettings.enableRecipeDetection
detectionEnabled(ps) == ~ps.isNull /\ ps.enableRecipeDetection

\* if (thingsToAvoid) text = removeProhibitedContent(text, thingsToAvoid)
postProcess(ps, text) ==
    IF hasThingsToAvoid(ps) THEN removeProhibitedContent(text, ps.thingsToAvoid)
    ELSE [threw |-> FALSE, val |-> text]

\* s.replace(/"/g, '')
RECURSIVE removeQuotes(_)
removeQuotes(s) ==
    Let(s, LAMBDA x :
    Let(indexOfFrom(x, "\"", 1), LAMBDA q :
        IF q = 0 THEN x ELSE Substring(x, 1, q - 1) \o removeQuotes(RestFrom(x, q + 1))))

\* the number of whitespace characters of text
countSeparators(text) == Cardinality({ i \in 1..Len(text) : CharAt(text, i) \in WhiteSpace })

\* text.split(/\s+/).filter(word => word.length > 0).length
countWords(text) ==
    Cardinality({ i \in 1..Len(text) :
                    /\ CharAt(text, i) \notin WhiteSpace
                    /\ (i = 1 \/ CharAt(text, i - 1) \in WhiteSpace) })

\* a multi-part generator that leaves the body part out
nextCallSkipsBody(kind) ==
    CASE kind = "content"      -> "title"
      [] kind = "introduction" -> "conclusion"
      [] kind = "body"         -> "conclusion"
      [] kind = "conclusion"   -> "title"

\* the completion call the code issues once the response to kind is handled
nextCall(kind) ==
    CASE kind = "content"      -> "title"
      [] kind = "introduction" -> "body"
      [] kind = "body"         -> "conclusion"
      [] kind = "conclusion"   -> "title"

PartKinds == {"introduction", "body", "conclusion"}

\* a catch block that returns an empty article in place of the error
swallow(error) ==
    [kind |-> "article", title |-> "", content |-> "", wordCount |-> 0,
     recipeData |-> Null]

\* catch (error) { ...; throw error; }
rethrow(error) == [kind |-> "error", error |-> error]

article(ps, t, c, key) ==
    [kind |-> "article", title |-> t, content |-> c, wordCount |-> countWords(c),
     recipeData |-> IF detectionEnabled(ps) THEN extractRecipeData(c, key).recipeData
                    ELSE Null]

\* openai.chat.completions.create(...) is called
issue(cs, kind) ==
    Append(cs, [kind |-> kind, status |-> "pending", error |-> "", raw |-> "", kept |-> ""])

\* the awaited call settles
settle(cs, status, error, raw, kept) ==
    [cs EXCEPT ![Len(cs)] = [kind |-> cs[Len(cs)].kind, status |-> status,
                             error |-> error, raw |-> raw, kept |-> kept]]

ResponseTexts ==
    {"<h2>Ingredients</h2><ul><li>1 cup flour</li></ul>",
     "<p>Simmer 5 minutes, then boil or Bake a]b</p>",
     "<p>Hello world</p>"}

TitleTexts == {"Best \"Cup\" Cakes", "Bake a]b"}

Init ==
    /\ GeneratorIdle
    /\ fn = "generateArticleContent"
    /\ arg = ""
    /\ ret = ""

\* generateArticleContent(openaiConfig, keyword, minWords, promptSettings) runs
\* to its first await
Generate ==
    /\ pc = "idle"
    /\ \E ps \in {Null} \cup [isNull : {FALSE},
                              useMultiPartGeneration : BOOLEAN,
                              thingsToAvoid : {"", "bake, \"cup\"", "]", "[[]]"},
                              enableRecipeDetection : BOOLEAN],
          key \in {"bake bread", "garden tips"} :
          /\ promptSettings' = ps
          /\ keyword' = key
          /\ calls' = issue(calls, IF useMultiPart(ps) THEN "introduction" ELSE "content")
          /\ pc' = IF useMultiPart(ps) THEN "introduction" ELSE "content"
    /\ UNCHANGED <<parts, content, title, outcome, fn, arg, ret>>

\* the awaited completion call rejects: the error leaves the invocation
CallRejects ==
    /\ pc \in PartKinds \cup {"content", "title"}
    /\ \E error \in {"RateLimitError", "TimeoutError"} :
          /\ calls' = settle(calls, "failed", error, "", "")
          /\ outcome' = rethrow(error)
    /\ pc' = "done"
    /\ UNCHANGED <<promptSettings, keyword, parts, content, title, fn, arg, ret>>

\* single pass: the content call resolves
ContentResponds ==
    /\ pc = "content"
    /\ \E text \in ResponseTexts :
          \E r \in {postProcess(promptSettings, text)} :
              IF r.threw
              THEN /\ calls' = settle(calls, "ok", "", text, "")
                   /\ outcome' = rethrow("TypeError")
                   /\ pc' = "done"
                   /\ UNCHANGED content
              ELSE /\ calls' = issue(settle(calls, "ok", "", text, r.val), nextCall("content"))
                   /\ content' = r.val
                   /\ pc' = nextCall("content")
                   /\ UNCHANGED outcome
    /\ UNCHANGED <<promptSettings, keyword, parts, title, fn, arg, ret>>

\* single pass: the title call resolves and the article is returned
TitleResponds ==
    /\ pc = "title"
    /\ ~useMultiPart(promptSettings)
    /\ \E text \in TitleTexts :
          \E r \in {postProcess(promptSettings, removeQuotes(text))} :
              IF r.threw
              THEN /\ calls' = settle(calls, "ok", "", text, "")
                   /\ outcome' = rethrow("TypeError")
                   /\ UNCHANGED title
              ELSE /\ calls' = settle(calls, "ok", "", text, r.val)
                   /\ title' = r.val
                   /\ outcome' = article(promptSettings, r.val, content, keyword)
    /\ pc' = "done"
    /\ UNCHANGED <<promptSettings, keyword, parts, content, fn, arg, ret>>

\* multi part: the call of generateArticlePart resolves; behind the third
\* part the parts are combined and the title call is issued
PartResponds ==
    /\ pc \in PartKinds
    /\ \E text \in ResponseTexts :
          \E r \in {postProcess(promptSettings, text)} :
          \E all \in {Append(parts, r.val)} :
          \E combined \in {postProcess(promptSettings, (Join(all, "\n\n")))} :
              IF r.threw \/ (pc = "conclusion" /\ combined.threw)
              THEN /\ calls' = settle(calls, "ok", "", text, "")
                   /\ outcome' = rethrow("TypeError")
                   /\ pc' = "done"
                   /\ UNCHANGED <<parts, content>>
              ELSE /\ calls' = issue(settle(calls, "ok", "", text, r.val), nextCall(pc))
                   /\ parts' = all
                   /\ content' = IF pc = "conclusion" THEN combined.val ELSE content
                   /\ pc' = nextCall(pc)
                   /\ UNCHANGED outcome
    /\ UNCHANGED <<promptSettings, keyword, title, fn, arg, ret>>

\* multi part: the title call resolves and the article is returned
MultiPartTitleResponds ==
    /\ pc = "title"
    /\ useMultiPart(promptSettings)
    /\ \E text \in TitleTexts :
          \E r \in {postProcess(promptSettings, removeQuotes(text))} :
              IF r.threw
              THEN /\ calls' = settle(calls, "ok", "", text, "")
                   /\ outcome' = rethrow("TypeError")
                   /\ UNCHANGED title
              ELSE /\ calls' = settle(calls, "ok", "", text, r.val)
                   /\ title' = r.val
                   /\ outcome' = article(promptSettings, r.val, content, keyword)
    /\ pc' = "done"
    /\ UNCHANGED <<promptSettings, keyword, parts, content, fn, arg, ret>>

Next ==
    \/ Generate
    \/ CallRejects
    \/ ContentResponds
    \/ TitleResponds
    \/ PartResponds
    \/ MultiPartTitleResponds

Spec == Init /\ [][Next]_vars
(***************************************************************************)
(* Two invocations of generateArticleContent on one event loop.  The       *)
(* variables of the generator hold the locals of the invocation whose      *)
(* continuation runs next, arg its number, and ret the locals of the other *)
(* invocation, which is suspended at its await (or has not started, or has *)
(* settled).  The module has no variable outside its functions.            *)
(***************************************************************************)
\* one invocation's locals in place of the other's, but for content: a
\* content variable the two invocations would share
switchedSharingContent ==
    [resumed   |-> [ret EXCEPT !.content = content],
     suspended |-> [pc |-> pc, promptSettings |-> promptSettings, keyword |-> keyword,
                    calls |-> calls, parts |-> parts, content |-> content,
                    title |-> title, outcome |-> outcome]]

\* the event loop turns to the other invocation: [resumed, suspended], the
\* locals of the invocation that continues and of the one that waits
switched ==
    [resumed   |-> ret,
     suspended |-> [pc |-> pc, promptSettings |-> promptSettings, keyword |-> keyword,
                    calls |-> calls, parts |-> parts, content |-> content,
                    title |-> title, outcome |-> outcome]]

InitPair ==
    /\ GeneratorIdle
    /\ fn = "generateArticleContent"
    /\ arg = 1
    /\ ret = [pc |-> "idle", promptSettings |-> Null, keyword |-> "", calls |-> <<>>,
              parts |-> <<>>, content |-> "", title |-> "", outcome |-> [kind |-> "none"]]

\* an invocation is called and runs to its first await: the first for a
\* single pass with recipe detection, the second for a multi-part article
GeneratePair ==
    /\ pc = "idle"
    /\ \E multi \in {arg = 2} :
          /\ promptSettings' = [isNull |-> FALSE, useMultiPartGeneration |-> multi,
                                thingsToAvoid |-> "bake, \"cup\"",
                                enableRecipeDetection |-> ~multi]
          /\ calls' = issue(calls, IF multi THEN "introduction" ELSE "content")
          /\ pc' = IF multi THEN "introduction" ELSE "content"
    /\ keyword' = IF arg = 1 THEN "bake bread" ELSE "garden tips"
    /\ UNCHANGED <<parts, content, title, outcome, fn, arg, ret>>

\* the continuation of the other invocation is the next to run
Resume ==
    /\ \E s \in {switched} :
          /\ pc' = s.resumed.pc
          /\ promptSettings' = s.resumed.promptSettings
          /\ keyword' = s.resumed.keyword
          /\ calls' = s.resumed.calls
          /\ parts' = s.resumed.parts
          /\ content' = s.resumed.content
          /\ title' = s.resumed.title
          /\ outcome' = s.resumed.outcome
          /\ ret' = s.suspended
    /\ arg' = 3 - arg
    /\ UNCHANGED fn

NextPair ==
    \/ GeneratePair
    \/ Resume
    \/ CallRejects
    \/ ContentResponds
    \/ TitleResponds
    \/ PartResponds
    \/ MultiPartTitleResponds

SpecPair == InitPair /\ [][NextPair]_vars

(***************************************************************************)
(* Prompt Assembler: src/src/openai.js, applyPromptVariables and the       *)
(* prompts generateArticleContent and generateArticlePart build.           *)
(***************************************************************************)
\* String(n) for a non-negative integer n
RECURSIVE numberToString(_)
numberToString(n) ==
    IF n < 10 THEN CharAt("0123456789", n + 1)
    ELSE numberToString(n \div 10) \o CharAt("0123456789", (n % 10) + 1)

\* What String.prototype.replace puts in the place of matched, found at
\* position of str by a pattern without capture groups, for the replacement
\* text from its position i on: $$ is a $, $& the match, $` the text in
\* front of the match, $' the text behind it; any other $ stands for itself.
RECURSIVE GetSubstitution(_, _, _, _, _)
GetSubstitution(replacement, str, position, matched, i) ==
    IF i > Len(replacement) THEN ""
    ELSE Let(IF CharAt(replacement, i) = "$" /\ i < Len(replacement)
             THEN CharAt(replacement, i + 1) ELSE "", LAMBDA c :
         IF c = "$" THEN "$" \o GetSubstitution(replacement, str, position, matched, i + 2)
         ELSE IF c = "&"
         THEN matched \o GetSubstitution(replacement, str, position, matched, i + 2)
         ELSE IF c = "`"
         THEN Substring(str, 1, position - 1)
              \o GetSubstitution(replacement, str, position, matched, i + 2)
         ELSE IF c = "'"
         THEN RestFrom(str, position + Len(matched))
              \o GetSubstitution(replacement, str, position, matched, i + 2)
         ELSE CharAt(replacement, i)
              \o GetSubstitution(replacement, str, position, matched, i + 1))

\* str.replace(new RegExp(`\\{${key}\\}`, 'g'), value) from position from on:
\* the pattern matches the literal text {key}
RECURSIVE replaceVariable(_, _, _, _)
replaceVariable(str, key, value, from) ==
    Let("{" \o key \o "}", LAMBDA token :
    Let(indexOfFrom(str, token, from), LAMBDA hit :
        IF hit = 0 THEN RestFrom(str, from)
        ELSE Substring(str, from, hit - 1)
             \o GetSubstitution(value, str, hit, token, 1)
             \o replaceVariable(str, key, value, hit + Len(token))))

\* applyPromptVariables(template, { keyword: keyword, minWords: minWords }):
\* the entries are replaced in the order of the object literal, and the
\* number minWords is converted to a string by replace
applyPromptVariables(template, key, minWords) ==
    Let(replaceVariable(template, "keyword", key, 1), LAMBDA result :
        replaceVariable(result, "minWords", numberToString(minWords), 1))

MaxTemplatePieces == 3

InitApply ==
    /\ GeneratorIdle
    /\ fn = "applyPromptVariables"
    /\ arg \in [template : StringsUpTo({"{keyword}", "{minWords}", "x ", "{"},
                                       MaxTemplatePieces),
                 keyword  : {"pie", "a$$b", "$&", "$'", "{minWords}"},
                 minWords : {0, 800}]
    /\ ret = [stage |-> 0, value |-> ""]

ApplyVariables ==
    /\ fn = "applyPromptVariables"
    /\ ret.stage = 0
    /\ \E r \in {applyPromptVariables(arg.template, arg.keyword, arg.minWords)} :
          ret' = [stage |-> 1, value |-> r]
    /\ UNCHANGED <<fn, arg>>
    /\ UNCHANGED generatorVars

SpecApply == InitApply /\ [][ApplyVariables]_vars

\* the default template of the single pass; the template literal puts keyword
\* and minWords in
DefaultContentPrompt(key, minWords) ==
    "Write a comprehensive, engaging, and SEO-optimized article about \"" \o key \o
    "\" that follows these guidelines:\n      \n      1. The article should " \o
    "be at least " \o numberToString(minWords) \o
    " words\n      2. Use proper WordPress formatting with H2 and H3 headings " \o
    "(no H1 as that's for the title)\n      3. Include a compelling introduction " \o
    "that hooks the reader\n      4. Break down the topic into logical " \o
    "sections with descriptive headings\n      5. Include practical tips, " \o
    "examples, and actionable advice\n      6. Add a conclusion that summarizes " \o
    "key points\n      7. Optimize for SEO with natural keyword usage\n" \o
    "      8. Make the content valuable and informative for the reader\n" \o
    "      \n      Format the article with proper HTML tags:\n      - Use " \o
    "<h2> for main section headings\n      - Use <h3> for subsection headings\n" \o
    "      - Use <p> for paragraphs\n      - Use <ul> and <li> for bullet " \o
    "points where appropriate\n      - Use <ol> and <li> for numbered lists " \o
    "where appropriate\n      \n      Write in a conversational, authoritative " \o
    "tone that engages the reader."

\* articleFormatInstructions of generateMultiPartArticle; the single pass
\* appends the same text under the same condition
articleFormatInstructions(ps) ==
    IF ps.useArticleFormat /\ ps.articleFormat # ""
    THEN "\n\nARTICLE FORMAT INSTRUCTIONS:\n" \o
         "Follow this specific structure and format for the article:\n" \o ps.articleFormat
    ELSE ""

\* recipeFormatInstructions of generateMultiPartArticle; the single pass
\* appends the same text under the same condition.  The condition is
\* keyword.toLowerCase().match(/recipe|dish|cook|...|snack/).
recipeFormatInstructions(ps, key) ==
    IF /\ ps.enableRecipeDetection
       /\ IncludesAny(toLowerCase(key),
                      <<"recipe", "dish", "cook", "bake", "food", "meal", "breakfast",
                        "lunch", "dinner", "dessert", "appetizer", "snack">>)
    THEN IF ps.recipeFormatPrompt # ""
         THEN "\n\nRECIPE FORMAT INSTRUCTIONS:\n" \o ps.recipeFormatPrompt
         ELSE "\n\nRECIPE FORMAT INSTRUCTIONS:\nPlease format this as a recipe article " \o
             "with the following sections:\n1. A brief introduction about the dish\n" \o
             "2. A \"Ingredients\" section with a clear, bulleted list (<ul><li>) " \o
             "of all ingredients with quantities\n3. A \"Instructions\" section " \o
             "with numbered steps (<ol><li>) for preparation\n4. Include preparation " \o
             "time, cooking time, and servings information clearly labeled (e.g., " \o
             "\"Prep Time: 15 minutes\")\n5. Add a \"Tips and Notes\" section with " \o
             "helpful advice for making this recipe\n6. If relevant, include nutrition " \o
             "information"
    ELSE ""

\* the two appendices in the opposite order
guidelineAppendicesAvoidFirst(ps) ==
    (IF ps.thingsToAvoid # ""
     THEN "\n\nIMPORTANT: DO NOT mention, include, or reference ANY of the following " \o
          "in your content. This is a strict requirement. DO NOT use ANY of these " \o
          "terms or concepts:\n" \o ps.thingsToAvoid
     ELSE "")
    \o
    (IF ps.seoGuidelines # ""
     THEN "\n\nFollow these additional SEO guidelines:\n" \o ps.seoGuidelines ELSE "")

\* what both prompt builders append for seoGuidelines and for thingsToAvoid
guidelineAppendices(ps) ==
    (IF ps.seoGuidelines # ""
     THEN "\n\nFollow these additional SEO guidelines:\n" \o ps.seoGuidelines ELSE "")
    \o
    (IF ps.thingsToAvoid # ""
     THEN "\n\nIMPORTANT: DO NOT mention, include, or reference ANY of the following " \o
          "in your content. This is a strict requirement. DO NOT use ANY of these " \o
          "terms or concepts:\n" \o ps.thingsToAvoid
     ELSE "")

\* contentPrompt of generateArticleContent as the content call receives it:
\* [base, prompt], base being the prompt before anything is appended
contentPrompt(ps, key, minWords) ==
    Let(IF ~ps.isNull /\ ps.mainPrompt # ""
        THEN applyPromptVariables(ps.mainPrompt, key, minWords)
        ELSE DefaultContentPrompt(key, minWords), LAMBDA base :
        [base   |-> base,
         prompt |-> IF ps.isNull THEN base
                    ELSE base \o guidelineAppendices(ps) \o articleFormatInstructions(ps)
                              \o recipeFormatInstructions(ps, key)])

\* a share of tenths of minWords rounded up from the half
partWordCountRounded(minWords, tenths) == (minWords * tenths + 5) \div 10

\* Math.floor(minWords * 0.2) and Math.floor(minWords * 0.6) for a
\* non-negative integer minWords.  The double nearest to 0.2 lies above 1/5
\* and the one nearest to 0.6 below 3/5, each by less than half a unit in the
\* last place, so the rounded product floors to the exact integer quotient.
partWordCount(minWords, tenths) == (minWords * tenths) \div 10

\* the rewording in the order of the switch of generateArticlePart
formatRewording(prompt) ==
    IF includes(prompt, "introduction for an article")
    THEN "\n\nFocus on writing the introduction part while keeping the overall " \o
         "article format in mind."
    ELSE IF includes(prompt, "main body content")
    THEN "\n\nEnsure you follow this structure while creating the main body content."
    ELSE IF includes(prompt, "conclusion for an article")
    THEN "\n\nFocus on writing the conclusion part according to this format."
    ELSE ""

\* the prompt generateArticlePart sends for promptTemplate: [base, prompt],
\* base being the prompt before anything is appended
partPrompt(ps, key, wordCount, promptTemplate, formatInstructions) ==
    Let(applyPromptVariables(promptTemplate, key, wordCount), LAMBDA base :
    Let(base \o guidelineAppendices(ps), LAMBDA prompt :
        [base   |-> base,
         prompt |-> IF formatInstructions = "" THEN prompt
                    ELSE prompt \o formatInstructions
                                \o formatRewording(prompt)]))

\* the three calls of generateArticlePart in generateMultiPartArticle
partPrompts(ps, key, minWords) ==
    Let(articleFormatInstructions(ps) \o recipeFormatInstructions(ps, key), LAMBDA format :
    Let(<<[kind     |-> "introduction",
           tenths   |-> 2,
           template |-> IF ps.part1Prompt # "" THEN ps.part1Prompt
                        ELSE "Write an engaging introduction for an article about {keyword}. The " \o
                        "introduction should hook the reader, explain why the topic is important, " \o
                        "and preview what the article will cover. Use approximately {minWords} " \o
                        "words."],
          [kind     |-> "body",
           tenths   |-> 6,
           template |-> IF ps.part2Prompt # "" THEN ps.part2Prompt
                        ELSE "Write the main body content for an article about {keyword}. This should " \o
                        "include detailed information, breakdown of the topic into logical " \o
                        "sections with appropriate H2 and H3 headings, practical tips, examples, " \o
                        "and actionable advice. Use approximately {minWords} words."],
          [kind     |-> "conclusion",
           tenths   |-> 2,
           template |-> IF ps.part3Prompt # "" THEN ps.part3Prompt
                        ELSE "Write a conclusion for an article about {keyword}. The conclusion " \o
                        "should summarize the key points, provide final thoughts, and possibly " \o
                        "include a call to action. Use approximately {minWords} words."]>>, LAMBDA plan :
        [k \in 1..3 |->
            Let(partWordCount(minWords, plan[k].tenths), LAMBDA wordCount :
            Let(partPrompt(ps, key, wordCount, plan[k].template, format), LAMBDA p :
                [kind |-> plan[k].kind, wordCount |-> wordCount, format |-> format,
                 base |-> p.base, prompt |-> p.prompt]))]))

\* the prompts of the content calls an invocation issues: the three part
\* prompts in multi-part mode, the single content prompt otherwise
contentPrompts(ps, key, minWords) ==
    IF useMultiPart(ps) THEN partPrompts(ps, key, minWords)
    ELSE Let(contentPrompt(ps, key, minWords), LAMBDA p :
             <<[kind |-> "content", wordCount |-> minWords, format |-> "",
                base |-> p.base, prompt |-> p.prompt]>>)

InitPrompts ==
    /\ GeneratorIdle
    /\ fn = "contentPrompts"
    /\ arg \in [promptSettings :
                    {Null} \cup
                    { [isNull |-> FALSE, useMultiPartGeneration |-> multi, mainPrompt |-> main,
                       seoGuidelines |-> seo, thingsToAvoid |-> avoid,
                       useArticleFormat |-> useFormat, articleFormat |-> format,
                       enableRecipeDetection |-> detect, recipeFormatPrompt |-> recipe,
                       part1Prompt |-> t[1], part2Prompt |-> t[2], part3Prompt |-> t[3]] :
                      multi \in BOOLEAN,
                      main \in {"", "About {keyword} in {minWords} words"},
                      seo \in {"", "Use short titles"},
                      avoid \in {"", "cup"},
                      useFormat \in BOOLEAN,
                      format \in {"", "Intro, steps, summary"},
                      detect \in BOOLEAN,
                      recipe \in {"", "List the ingredients"},
                      t \in {<<"", "", "">>,
                              <<"Open on {keyword}", "Explain {keyword} in {minWords} words",
                                "Close on {keyword}">>,
                              <<"", "", "Write a conclusion for an article about {keyword} "
                                        \o "behind the main body content">>} },
                 keyword  : {"Apple Pie Recipe", "garden tips"},
                 minWords : {0, 7, 800, 1234}]
    /\ ret = [stage |-> 0, prompts |-> <<>>]

BuildPrompts ==
    /\ fn = "contentPrompts"
    /\ ret.stage = 0
    /\ \E r \in {contentPrompts(arg.promptSettings, arg.keyword, arg.minWords)} :
          ret' = [stage |-> 1, prompts |-> r]
    /\ UNCHANGED <<fn, arg>>
    /\ UNCHANGED generatorVars

SpecPrompts == InitPrompts /\ [][BuildPrompts]_vars

(***************************************************************************)
(* Block Formatter: src/src/openai.js, formatContentForWordPress.          *)
(* A JavaScript value is a record: type is the result of typeof ("null"    *)
(* for null), str the string, num the number, bool the boolean, and throws *)
(* tells for an object that its conversion to a string throws.             *)
(***************************************************************************)
\* text.replace(/<tag>(.*?)<\/tag>/gi, open <tag>$1</tag> close) from position
\* i on; with dotAll the group is ([\s\S]*?).  The lazy group ends at the
\* first closing tag, and without dotAll no line terminator may stand in it.
\* The replacement writes the tags as the literal has them, in lower case.
RECURSIVE wrapElements(_, _, _, _, _, _)
wrapElements(text, tag, open, close, dotAll, i) ==
    Let("<" \o tag \o ">", LAMBDA openTag :
    Let("</" \o tag \o ">", LAMBDA closeTag :
    Let(FirstWhere(i, Len(text),
                   LAMBDA k : /\ MatchesCI(text, k, openTag)
                              /\ \E e \in (k + Len(openTag))..Len(text) :
                                    /\ MatchesCI(text, e, closeTag)
                                    /\ \A d \in (k + Len(openTag))..(e - 1) :
                                          ~MatchesCI(text, d, closeTag)
                                    /\ dotAll \/ ~HasLineTerminator(
                                          Substring(text, k + Len(openTag), e - 1))),
        LAMBDA k :
        IF k = 0 THEN RestFrom(text, i)
        ELSE Let(FirstWhere(k + Len(openTag), Len(text),
                            LAMBDA e : MatchesCI(text, e, closeTag)), LAMBDA e :
                 Substring(text, i, k - 1)
                 \o open \o openTag \o Substring(text, k + Len(openTag), e - 1)
                 \o closeTag \o close
                 \o wrapElements(text, tag, open, close, dotAll, e + Len(closeTag))))))

\* formatContentForWordPress(content): [threw, val]
formatContentForWordPress(input) ==
    LET falsy == \/ input.type \in {"null", "undefined"}
                 \/ input.type = "string" /\ input.str = ""
                 \/ input.type = "number" /\ input.num = 0
                 \/ input.type = "boolean" /\ ~input.bool
        \* String(content || '') throws for an object that cannot be converted,
        \* and so does the same call in the catch block
        throws == ~falsy /\ input.type = "object" /\ input.throws
        text == IF falsy THEN ""
                ELSE CASE input.type = "string"  -> input.str
                       [] input.type = "number"  -> numberToString(input.num)
                       [] input.type = "boolean" -> "true"
                       [] input.type = "object"  -> input.str
        \* /<\/?[a-z][\s\S]*>/i.test(content)
        hasHtmlTags(s) ==
            \E k \in 1..Len(s) :
                /\ CharAt(s, k) = "<"
                /\ \E a \in {k + 1, k + 2} :
                      /\ a = k + 2 => MatchesCS(s, k + 1, "/")
                      /\ a <= Len(s)
                      /\ toLowerCase(CharAt(s, a)) \in { CharAt(LowerLetters, n) : n \in 1..26 }
                      /\ \E e \in (a + 1)..Len(s) : CharAt(s, e) = ">"
        \* s.split('\n\n') from position i on
        RECURSIVE split(_, _)
        split(s, i) ==
            IF indexOfFrom(s, "\n\n", i) = 0 THEN <<RestFrom(s, i)>>
            ELSE <<Substring(s, i, indexOfFrom(s, "\n\n", i) - 1)>>
                 \o split(s, indexOfFrom(s, "\n\n", i) + 2)
        block(para) ==
            IF startsWith(para, "# ")
            THEN "<!-- wp:heading --><h2>" \o RestFrom(para, 3) \o "</h2><!-- /wp:heading -->"
            ELSE IF startsWith(para, "## ")
            THEN "<!-- wp:heading --><h2>" \o RestFrom(para, 4) \o "</h2><!-- /wp:heading -->"
            ELSE IF startsWith(para, "### ")
            THEN "<!-- wp:heading {\"level\":3} --><h3>" \o RestFrom(para, 5)
                 \o "</h3><!-- /wp:heading -->"
            ELSE "<!-- wp:paragraph --><p>" \o para \o "</p><!-- /wp:paragraph -->"
        trimmed(s) == [n \in 1..Len(split(s, 1)) |-> trim(split(s, 1)[n])]
        blocks(s) == [n \in 1..Len(SelectSeq(trimmed(s), LAMBDA para : Len(para) > 0)) |->
                        block(SelectSeq(trimmed(s), LAMBDA para : Len(para) > 0)[n])]
    IN  IF throws THEN [threw |-> TRUE, val |-> ""]
        ELSE IF hasHtmlTags(text)
        THEN Let(wrapElements(text, "h2", "<!-- wp:heading -->", "<!-- /wp:heading -->",
                              FALSE, 1), LAMBDA h2 :
             Let(wrapElements(h2, "h3", "<!-- wp:heading {\"level\":3} -->",
                              "<!-- /wp:heading -->", FALSE, 1), LAMBDA h3 :
             Let(wrapElements(h3, "p", "<!-- wp:paragraph -->", "<!-- /wp:paragraph -->",
                              FALSE, 1), LAMBDA para :
             Let(wrapElements(para, "ul", "<!-- wp:list -->", "<!-- /wp:list -->",
                              TRUE, 1), LAMBDA ul :
                 [threw |-> FALSE,
                  val   |-> wrapElements(ul, "ol", "<!-- wp:list {\"ordered\":true} -->",
                                         "<!-- /wp:list -->", TRUE, 1)]))))
        ELSE [threw |-> FALSE, val |-> Join(blocks(text), "\n\n")]

MaxBlockFragments == 2

InitBlocks ==
    /\ GeneratorIdle
    /\ fn = "formatContentForWordPress"
    /\ arg \in [content :
                  { [type |-> "string", str |-> s, num |-> 0, bool |-> FALSE, throws |-> FALSE] :
                      s \in StringsUpTo({"<h2>A</h2>", "<H3>B</H3>", "<p>c d</p>", "<p>e\nf</p>",
                                         "<ul><li>x</li>\n<li>y</li></ul>", "<ol><li>z</li></ol>",
                                         "# T", "## U", "### V", "\n\n", " w", "<br>"},
                                        MaxBlockFragments) }
                  \cup
                  { [type |-> "number", str |-> "", num |-> n, bool |-> FALSE, throws |-> FALSE] :
                      n \in {0, 42} }
                  \cup
                  { [type |-> "boolean", str |-> "", num |-> 0, bool |-> b, throws |-> FALSE] :
                      b \in BOOLEAN }
                  \cup
                  { [type |-> t, str |-> "", num |-> 0, bool |-> FALSE, throws |-> FALSE] :
                      t \in {"null", "undefined"} }
                  \cup
                  { [type |-> "object", str |-> "[object Object]", num |-> 0, bool |-> FALSE,
                     throws |-> FALSE],
                    [type |-> "object", str |-> "", num |-> 0, bool |-> FALSE,
                     throws |-> TRUE] }]
    /\ ret = [stage |-> 0, threw |-> FALSE, val |-> ""]

FormatForWordPress ==
    /\ fn = "formatContentForWordPress"
    /\ ret.stage = 0
    /\ \E r \in {formatContentForWordPress(arg.content)} :
          ret' = [stage |-> 1, threw |-> r.threw, val |-> r.val]
    /\ UNCHANGED <<fn, arg>>
    /\ UNCHANGED generatorVars

SpecBlocks == InitBlocks /\ [][FormatForWordPress]_vars

(***************************************************************************)
(* Properties of the Article Generator, checked under Spec.                *)
(***************************************************************************)
\* C1: a completion call that fails ends the invocation with that error: the
\* failed call is the last call issued, no call of its kind was issued before
\* it (it is no retry, and it is not retried), the invocation is over and its
\* outcome is the error of the call, not an article.
C1_FailurePropagates ==
    \A k \in 1..Len(calls) :
        calls[k].status = "failed" =>
            /\ k = Len(calls)
            /\ \A j \in 1..(k - 1) : calls[j].kind # calls[k].kind
            /\ pc = "done"
            /\ outcome.kind = "error"
            /\ outcome.error = calls[k].error

\* the body call of a multi-part generation has failed
C1_BodyCallFailed ==
    /\ Len(calls) = 2
    /\ calls[2].kind = "body"
    /\ calls[2].status = "failed"
    /\ outcome.kind = "error"

\* C2: calls are issued one at a time, each behind the response of the one
\* before it, and an invocation that returns an article has issued exactly
\* introduction, body, conclusion, title (multi part) or content, title
\* (single pass).
C2_CallsInOrder ==
    /\ \A k \in 1..(Len(calls) - 1) : calls[k].status = "ok"
    /\ outcome.kind = "article" =>
          /\ \A k \in 1..Len(calls) : calls[k].status = "ok"
          /\ [k \in 1..Len(calls) |-> calls[k].kind] =
                IF ~promptSettings.isNull /\ promptSettings.useMultiPartGeneration
                THEN <<"introduction", "body", "conclusion", "title">>
                ELSE <<"content", "title">>

\* a multi-part generation has returned its article
C2_MultiPartReturned ==
    /\ outcome.kind = "article"
    /\ ~promptSettings.isNull
    /\ promptSettings.useMultiPartGeneration
    /\ Len(calls) = 4

\* term, lower-cased as the suppressor keeps it, stands at position i of
\* text as a whole word, in any letter case
WordAt(text, term, i) ==
    /\ i + Len(term) - 1 <= Len(text)
    /\ toLowerCase(Substring(text, i, i + Len(term) - 1)) = term
    /\ WordBoundary(text, i)
    /\ WordBoundary(text, i + Len(term))

OccursAsWord(text, term) == \E i \in 1..Len(text) : WordAt(text, term, i)

\* the terms of a term list
TermSet(terms) == { terms[k] : k \in 1..Len(terms) }

\* C3 as stated: with thingsToAvoid non-empty, the title and the content of
\* the article returned hold no parsed term, other than the word
\* alternative, as a whole word.
C3_NoAvoidTermReturned ==
    (~promptSettings.isNull /\ promptSettings.thingsToAvoid # "" /\ outcome.kind = "article") =>
        \A term \in TermSet(avoidTermsOf(promptSettings.thingsToAvoid).terms) \ {"alternative"} :
            /\ ~OccursAsWord(outcome.title, term)
            /\ ~OccursAsWord(outcome.content, term)

\* C3, amended: with thingsToAvoid non-empty, every result is suppressed as
\* it is received, so that no parsed term that holds neither [ nor ], other
\* than the word alternative, stands as a whole word in the result kept of
\* any call, in any part, in the content, or in the title and content of
\* the article returned.
C3_NoBracketFreeAvoidTermKept ==
    (~promptSettings.isNull /\ promptSettings.thingsToAvoid # "") =>
        \A term \in TermSet(avoidTermsOf(promptSettings.thingsToAvoid).terms) \ {"alternative"} :
            (~includes(term, "[") /\ ~includes(term, "]")) =>
                /\ \A k \in 1..Len(calls) :
                       calls[k].status = "ok" => ~OccursAsWord(calls[k].kept, term)
                /\ \A k \in 1..Len(parts) : ~OccursAsWord(parts[k], term)
                /\ ~OccursAsWord(content, term)
                /\ outcome.kind = "article" =>
                      /\ ~OccursAsWord(outcome.title, term)
                      /\ ~OccursAsWord(outcome.content, term)

\* a multi-part article is returned whose title and content had avoid terms
\* replaced
C3_SuppressedArticleReturned ==
    /\ outcome.kind = "article"
    /\ ~promptSettings.isNull
    /\ promptSettings.useMultiPartGeneration
    /\ promptSettings.thingsToAvoid = "bake, \"cup\""
    /\ includes(outcome.title, Replacement)
    /\ includes(outcome.content, Replacement)
    /\ \E k \in 1..Len(calls) : calls[k].kept # calls[k].raw

\* the indicator terms that stand in text, in any letter case
IndicatorsIn(text) ==
    { k \in 1..Len(recipeIndicators) :
        \E i \in 1..(Len(text) - Len(recipeIndicators[k]) + 1) :
            toLowerCase(Substring(text, i, i + Len(recipeIndicators[k]) - 1))
                = recipeIndicators[k] }

\* C5: the article returned holds a record as recipeData only if
\* promptSettings is given with enableRecipeDetection set and at least 3 of
\* the 15 indicator terms stand in its content; with promptSettings null or
\* detection disabled recipeData is null.
C5_RecipeDataOnlyWhenEnabled ==
    outcome.kind = "article" =>
        /\ ~outcome.recipeData.isNull =>
              /\ ~promptSettings.isNull
              /\ promptSettings.enableRecipeDetection
              /\ Cardinality(IndicatorsIn(outcome.content)) >= 3
        /\ (promptSettings.isNull \/ ~promptSettings.enableRecipeDetection) =>
              outcome.recipeData = Null

\* a multi-part article is returned with a record as recipeData
C5_RecipeDataReturned ==
    /\ outcome.kind = "article"
    /\ ~outcome.recipeData.isNull
    /\ promptSettings.useMultiPartGeneration
    /\ promptSettings.enableRecipeDetection

(***************************************************************************)
(* Properties of the Recipe Extractor, checked under SpecExtract.          *)
(***************************************************************************)
\* C4: extractRecipeData returns null exactly when fewer than 3 of the 15
\* indicator terms stand in html, and then no sub-routine has run; with 3 or
\* more it returns a record, built by the sub-routines.
C4_NullExactlyBelowThree ==
    ret.stage = 1 =>
        /\ Len(recipeIndicators) = 15
        /\ ret.recipeData.isNull <=> Cardinality(IndicatorsIn(arg.html)) < 3
        /\ ret.recipeData.isNull => ret.recipeData = Null /\ ret.ran = {}
        /\ ~ret.recipeData.isNull => ret.ran = SubRoutines

\* a content with exactly two indicator terms was given and null returned
C4_TwoIndicatorsNull ==
    /\ ret.stage = 1
    /\ Cardinality(IndicatorsIn(arg.html)) = 2
    /\ ret.recipeData = Null

\* C6: for a string html and a string keyword extractRecipeData returns, and
\* every field of a record it returns (Description, Ingredients,
\* Instructions, Notes, the 8 fields of Details, Keywords, the 12 fields of
\* Nutrition) is a string, never an undefined value.
C6_EveryFieldAString ==
    (ret.stage = 1 /\ ~ret.recipeData.isNull) =>
        /\ Cardinality(DOMAIN ret.recipeData.Details) = 8
        /\ Cardinality(DOMAIN ret.recipeData.Nutrition) = 12
        /\ \A v \in {ret.recipeData.Description, ret.recipeData.Ingredients,
                    ret.recipeData.Instructions, ret.recipeData.Notes,
                    ret.recipeData.Keywords}
                   \cup { ret.recipeData.Details[f] : f \in DOMAIN ret.recipeData.Details }
                   \cup { ret.recipeData.Nutrition[f] : f \in DOMAIN ret.recipeData.Nutrition } :
              v \in STRING /\ v # Undefined

\* a record was returned for a content without a list, a line break or an
\* ingredients or instructions heading: both fields hold their fallback
C6_RecordWithoutMarkup ==
    /\ ret.stage = 1
    /\ ~ret.recipeData.isNull
    /\ ~includes(arg.html, "<li>")
    /\ ~includes(arg.html, "<br")
    /\ ~includes(arg.html, "<h2>")
    /\ ret.recipeData.Ingredients = IngredientsFallback
    /\ ret.recipeData.Instructions = InstructionsFallback

\* C7: in every record returned the fields Description, Ingredients,
\* Instructions, Prep Time, Cook Time, Total Time and Yield are non-empty.
C7_PrimaryFieldsNonEmpty ==
    (ret.stage = 1 /\ ~ret.recipeData.isNull) =>
        /\ ret.recipeData.Description # ""
        /\ ret.recipeData.Ingredients # ""
        /\ ret.recipeData.Instructions # ""
        /\ ret.recipeData.Details.PrepTime # ""
        /\ ret.recipeData.Details.CookTime # ""
        /\ ret.recipeData.Details.TotalTime # ""
        /\ ret.recipeData.Details.Yield # ""

\* a record was returned whose Description is the empty string, taken from
\* an empty first paragraph
C7_EmptyDescriptionReturned ==
    /\ ret.stage = 1
    /\ ~ret.recipeData.isNull
    /\ startsWith(arg.html, "<p></p>")
    /\ ret.recipeData.Description = ""

(***************************************************************************)
(* Properties of the Term Suppressor, checked under SpecSuppress.          *)
(***************************************************************************)
\* text from position i on, every whole-word occurrence of term replaced,
\* read from the left, the rest left as it is
RECURSIVE WordsReplaced(_, _, _)
WordsReplaced(text, term, i) ==
    IF i > Len(text) THEN ""
    ELSE IF WordAt(text, term, i)
         THEN Replacement \o WordsReplaced(text, term, i + Len(term))
         ELSE CharAt(text, i) \o WordsReplaced(text, term, i + 1)

\* the terms applied one behind the other, in their order
RECURSIVE TermsReplaced(_, _)
TermsReplaced(text, terms) ==
    IF terms = <<>> THEN text
    ELSE TermsReplaced(WordsReplaced(text, Head(terms), 1), Tail(terms))

\* C8: for every text and every avoid specification removeProhibitedContent
\* returns the text with every whole-word occurrence, in any letter case, of
\* each parsed term replaced by [alternative], the terms applied in parse
\* order and the rest of the text unchanged.
C8_EveryOccurrenceReplaced ==
    ret.stage >= 1 =>
        /\ ~ret.threw
        /\ ret.first = TermsReplaced(arg.text, ret.terms)

\* removeProhibitedContent has thrown on an avoid specification that parses
\* as a JSON array with an element that is no string
C8_ThrowsOnNonStringElement ==
    /\ ret.stage = 1
    /\ ret.threw
    /\ arg.thingsToAvoid = "[[]]"

\* the terms of a sequence, as a set

\* C9 as stated: for an avoid specification none of whose terms holds the
\* word alternative, suppressing the suppressed text again changes nothing.
C9_Idempotent ==
    (ret.stage = 2 /\ \A term \in TermSet(ret.terms) : ~includes(term, "alternative")) =>
        ret.second = ret.first

\* C9, amended: for an avoid specification none of whose terms is the word
\* alternative or holds [ or ], suppressing the suppressed text again
\* changes nothing.
C9_IdempotentBracketFree ==
    (ret.stage = 2 /\ \A term \in TermSet(ret.terms) :
                          term # "alternative" /\ ~includes(term, "[") /\ ~includes(term, "]")) =>
        ret.second = ret.first

\* a text in which a term was replaced has been suppressed a second time
C9_SuppressedTwice ==
    /\ ret.stage = 2
    /\ "a" \in TermSet(ret.terms)
    /\ TermSet(ret.terms) \subseteq {"a", "a a"}
    /\ ret.first # arg.text
    /\ ret.second = ret.first

(***************************************************************************)
(* Properties of the parsing of the avoid specification, checked under     *)
(* SpecParse.                                                              *)
(***************************************************************************)
\* the first position behind i where the character c stands, 0 without one
NextOf(s, c, i) ==
    IF \E j \in (i + 1)..Len(s) : CharAt(s, j) = c
    THEN CHOOSE j \in (i + 1)..Len(s) :
            CharAt(s, j) = c /\ \A k \in (i + 1)..(j - 1) : CharAt(s, k) # c
    ELSE 0

\* The tokens of an avoid specification from position i on, in order: what
\* stands between a quote character and the next one of its kind, when that
\* is at least one character, and every longest run without a comma or a
\* quote character.
RECURSIVE TokensFrom(_, _)
TokensFrom(s, i) ==
    IF i > Len(s) THEN <<>>
    ELSE IF CharAt(s, i) \in {"\"", "'"} /\ NextOf(s, CharAt(s, i), i) > i + 1
         THEN <<Substring(s, i + 1, NextOf(s, CharAt(s, i), i) - 1)>>
              \o TokensFrom(s, NextOf(s, CharAt(s, i), i) + 1)
    ELSE IF CharAt(s, i) \in {"\"", "'", ","} THEN TokensFrom(s, i + 1)
    ELSE LET stops == { j \in i..Len(s) : CharAt(s, j) \in {"\"", "'", ","} } \cup {Len(s) + 1}
             stop  == CHOOSE j \in stops : \A k \in stops : j <= k
         IN  <<Substring(s, i, stop - 1)>> \o TokensFrom(s, stop)

C11_PlaceholdersReplacedVerbatim ==
    (fn = "applyPromptVariables" /\ ret.stage = 1) =>
        LET RECURSIVE Filled(_)
            Filled(i) ==
                IF i > Len(arg.template) THEN ""
                ELSE IF startsWith(RestFrom(arg.template, i), "{keyword}")
                THEN arg.keyword \o Filled(i + 9)
                ELSE IF startsWith(RestFrom(arg.template, i), "{minWords}")
                THEN numberToString(arg.minWords) \o Filled(i + 10)
                ELSE CharAt(arg.template, i) \o Filled(i + 1)
        IN  /\ ret.value = Filled(1)
            /\ ~includes(ret.value, "{keyword}")
            /\ ~includes(ret.value, "{minWords}")

\* the keyword a$$b was put in the place of {keyword} and the result does not
\* contain it: replace read $$ as the pattern for one $
C11_DollarPatternExpanded ==
    /\ fn = "applyPromptVariables"
    /\ ret.stage = 1
    /\ arg.keyword = "a$$b"
    /\ arg.template = "x {keyword}"
    /\ ret.value = "x a$b"

(***************************************************************************)
(* Properties of the prompts, checked under SpecPrompts.                   *)
(***************************************************************************)
\* C12: in the single-pass prompt and in every part prompt, what follows the
\* base prompt holds the SEO guidelines, the things-to-avoid directive, the
\* article-format instructions and the recipe-format instructions in this
\* order, each at most once; the SEO and the things-to-avoid appendix are
\* there exactly when their setting is non-empty, the article-format block
\* exactly when useArticleFormat is true and articleFormat is non-empty, and
\* the recipe-format block exactly when enableRecipeDetection is true and the
\* keyword matches the recipe-signal pattern.
C12_AppendicesInFixedOrder ==
    (fn = "contentPrompts" /\ ret.stage = 1) =>
        \A k \in 1..Len(ret.prompts) :
            LET ps == arg.promptSettings
                p == ret.prompts[k]
                appended == RestFrom(p.prompt, Len(p.base) + 1)
                Headers == <<"\n\nFollow these additional SEO guidelines:\n",
                             "\n\nIMPORTANT: DO NOT mention, include, or reference ANY",
                             "\n\nARTICLE FORMAT INSTRUCTIONS:\n",
                             "\n\nRECIPE FORMAT INSTRUCTIONS:\n">>
                Values == <<ps.seoGuidelines, ps.thingsToAvoid, ps.articleFormat, "">>
                signal == \E i \in 1..Len(arg.keyword) :
                            \E w \in {"recipe", "dish", "cook", "bake", "food", "meal",
                                      "breakfast", "lunch", "dinner", "dessert",
                                      "appetizer", "snack"} :
                                startsWith(toLowerCase(RestFrom(arg.keyword, i)), w)
                Due == <<ps.seoGuidelines # "",
                         ps.thingsToAvoid # "",
                         ps.useArticleFormat /\ ps.articleFormat # "",
                         ps.enableRecipeDetection /\ signal>>
                At(h) == indexOfFrom(appended, Headers[h], 1)
            IN  /\ startsWith(p.prompt, p.base)
                /\ ps.isNull => appended = ""
                /\ ~ps.isNull =>
                      /\ \A h \in 1..4 :
                            /\ (At(h) # 0) <=> Due[h]
                            /\ At(h) # 0 =>
                                  /\ indexOfFrom(appended, Headers[h], At(h) + 1) = 0
                                  /\ includes(RestFrom(appended, At(h)), Values[h])
                      /\ \A h, j \in 1..4 : (h < j /\ Due[h] /\ Due[j]) => At(h) < At(j)
                      /\ (\E h \in 1..4 : Due[h]) => At(MinOf({h \in 1..4 : Due[h]})) = 1

\* the three part prompts of a multi-part invocation were built with all four
\* appendices due
C12_AllFourAppended ==
    /\ fn = "contentPrompts"
    /\ ret.stage = 1
    /\ ~arg.promptSettings.isNull
    /\ arg.promptSettings.seoGuidelines # ""
    /\ arg.promptSettings.thingsToAvoid # ""
    /\ arg.promptSettings.useArticleFormat
    /\ arg.promptSettings.articleFormat # ""
    /\ arg.promptSettings.enableRecipeDetection
    /\ arg.promptSettings.recipeFormatPrompt = ""
    /\ arg.keyword = "Apple Pie Recipe"
    /\ Len(ret.prompts) = 3
    /\ \A k \in 1..3 : includes(ret.prompts[k].prompt, "6. If relevant, include nutrition")

\* C13: in multi-part mode, when format instructions are present, the
\* introduction prompt ends with the sentence on keeping the overall article
\* format in mind, the body prompt with the sentence on following this
\* structure, and the conclusion prompt with the sentence on the conclusion
\* part according to this format, for default and custom part templates.
C13_RewordingOfOwnPart ==
    (fn = "contentPrompts" /\ ret.stage = 1 /\ Len(ret.prompts) = 3) =>
        \A k \in 1..3 :
            ret.prompts[k].format # "" =>
                endsWith(ret.prompts[k].prompt,
                         CASE ret.prompts[k].kind = "introduction" ->
                                "\n\nFocus on writing the introduction part while " \o
                                "keeping the overall article format in mind."
                           [] ret.prompts[k].kind = "body" ->
                                "\n\nEnsure you follow this structure while creating " \o
                                "the main body content."
                           [] ret.prompts[k].kind = "conclusion" ->
                                "\n\nFocus on writing the conclusion part according " \o
                                "to this format.")

\* with a custom introduction template the introduction prompt ends with the
\* article-format instructions themselves: no rewording was appended
C13_CustomIntroductionNotReworded ==
    /\ fn = "contentPrompts"
    /\ ret.stage = 1
    /\ Len(ret.prompts) = 3
    /\ arg.promptSettings.part1Prompt = "Open on {keyword}"
    /\ arg.promptSettings.useArticleFormat
    /\ arg.promptSettings.articleFormat = "Intro, steps, summary"
    /\ ~arg.promptSettings.enableRecipeDetection
    /\ endsWith(ret.prompts[1].prompt, "format for the article:\nIntro, steps, summary")

\* C14: in multi-part mode the word counts put into the introduction, body
\* and conclusion templates are floor(0.2 * minWords), floor(0.6 * minWords)
\* and floor(0.2 * minWords), and the three never sum to more than minWords.
C14_BudgetsAreFloors ==
    (fn = "contentPrompts" /\ ret.stage = 1 /\ Len(ret.prompts) = 3) =>
        LET n == arg.minWords
            b == [k \in 1..3 |-> ret.prompts[k].wordCount]
            IsFloor(x, num, den) == den * x <= num /\ num < den * (x + 1)
        IN  /\ IsFloor(b[1], 2 * n, 10)
            /\ IsFloor(b[2], 6 * n, 10)
            /\ IsFloor(b[3], 2 * n, 10)
            /\ b[1] + b[2] + b[3] <= n
            /\ \A k \in 1..3 :
                  LET template == CASE k = 1 -> arg.promptSettings.part1Prompt
                                    [] k = 2 -> arg.promptSettings.part2Prompt
                                    [] k = 3 -> arg.promptSettings.part3Prompt
                  IN  IF template = ""
                      THEN includes(ret.prompts[k].base,
                                    "Use approximately " \o numberToString(b[k]) \o " words.")
                      ELSE includes(template, "{minWords}") =>
                              includes(ret.prompts[k].base,
                                       " in " \o numberToString(b[k]) \o " words")

\* minWords 1234 was split into 246, 740 and 246 words, two short of 1234
C14_SplitOf1234 ==
    /\ fn = "contentPrompts"
    /\ ret.stage = 1
    /\ Len(ret.prompts) = 3
    /\ arg.minWords = 1234
    /\ arg.promptSettings.part1Prompt = ""
    /\ ret.prompts[1].wordCount = 246
    /\ ret.prompts[2].wordCount = 740
    /\ ret.prompts[3].wordCount = 246
    /\ includes(ret.prompts[2].prompt, "Use approximately 740 words.")

(***************************************************************************)
(* Further properties of the Article Generator, checked under Spec.        *)
(***************************************************************************)
\* C15: the wordCount of every returned article is the number of non-empty
\* whitespace-delimited tokens of the returned content itself, tags included.
C15_WordCountOfReturnedContent ==
    outcome.kind = "article" =>
        LET c == outcome.content
            TokenEnds == { i \in 1..Len(c) :
                             /\ CharAt(c, i) \notin WhiteSpace
                             /\ i < Len(c) => CharAt(c, i + 1) \in WhiteSpace }
        IN  outcome.wordCount = Cardinality(TokenEnds)

\* a single pass returned the content <p>Hello world</p> with wordCount 2
C15_HelloWorldCountsTwo ==
    /\ outcome.kind = "article"
    /\ outcome.content = "<p>Hello world</p>"
    /\ outcome.wordCount = 2

(***************************************************************************)
(* Properties of the Block Formatter, checked under SpecBlocks.            *)
(***************************************************************************)
\* C16: formatContentForWordPress never throws, and for an input that is not
\* a string it returns the input converted to a string, unchanged: 42 gives
\* "42".
C16_NeverThrowsAndStringifies ==
    (fn = "formatContentForWordPress" /\ ret.stage = 1) =>
        /\ ~ret.threw
        /\ arg.content.type # "string" =>
              ret.val = CASE arg.content.type = "number"    -> numberToString(arg.content.num)
                          [] arg.content.type = "boolean"   ->
                                IF arg.content.bool THEN "true" ELSE "false"
                          [] arg.content.type = "null"      -> "null"
                          [] arg.content.type = "undefined" -> "undefined"
                          [] arg.content.type = "object"    -> arg.content.str

\* the number 42 came back as a paragraph block
C16_NumberWrappedInParagraph ==
    /\ fn = "formatContentForWordPress"
    /\ ret.stage = 1
    /\ arg.content.type = "number"
    /\ arg.content.num = 42
    /\ ~ret.threw
    /\ ret.val = "<!-- wp:paragraph --><p>42</p><!-- /wp:paragraph -->"

\* C17: for a string with an HTML tag, in the output every <h2>, <h3>, <p>,
\* <ul> and <ol> element stands between the opening and the closing block
\* comment of its own type, there are as many closing as opening block
\* comments, and the output without its comments is the input.
C17_EveryElementWrapped ==
    (/\ fn = "formatContentForWordPress"
     /\ ret.stage = 1
     /\ arg.content.type = "string"
     /\ includes(arg.content.str, "<")) =>
        LET out == ret.val
            Kinds == <<[tag |-> "h2", open |-> "<!-- wp:heading -->",
                        close |-> "<!-- /wp:heading -->"],
                       [tag |-> "h3", open |-> "<!-- wp:heading {\"level\":3} -->",
                        close |-> "<!-- /wp:heading -->"],
                       [tag |-> "p", open |-> "<!-- wp:paragraph -->",
                        close |-> "<!-- /wp:paragraph -->"],
                       [tag |-> "ul", open |-> "<!-- wp:list -->",
                        close |-> "<!-- /wp:list -->"],
                       [tag |-> "ol", open |-> "<!-- wp:list {\"ordered\":true} -->",
                        close |-> "<!-- /wp:list -->"]>>
            Count(t) == Cardinality({ k \in 1..Len(out) : MatchesCS(out, k, t) })
            RECURSIVE WithoutComments(_)
            WithoutComments(i) ==
                IF i > Len(out) THEN ""
                ELSE IF MatchesCS(out, i, "<!--") /\ indexOfFrom(out, "-->", i) # 0
                THEN WithoutComments(indexOfFrom(out, "-->", i) + 3)
                ELSE CharAt(out, i) \o WithoutComments(i + 1)
        IN  /\ ~ret.threw
            /\ \A n \in 1..Len(Kinds) : \A k \in 1..Len(out) :
                  /\ MatchesCI(out, k, "<" \o Kinds[n].tag \o ">") =>
                        MatchesCS(out, k - Len(Kinds[n].open), Kinds[n].open)
                  /\ MatchesCI(out, k, "</" \o Kinds[n].tag \o ">") =>
                        MatchesCS(out, k + Len(Kinds[n].tag) + 3, Kinds[n].close)
            /\ Count("<!-- wp:") = Count("<!-- /wp:")
            /\ WithoutComments(1) = arg.content.str

\* a paragraph with a line break in it came back without block comments
C17_ParagraphWithLineBreakUnwrapped ==
    /\ fn = "formatContentForWordPress"
    /\ ret.stage = 1
    /\ arg.content.type = "string"
    /\ arg.content.str = "<p>e\nf</p>"
    /\ ret.val = "<p>e\nf</p>"

(***************************************************************************)
(* Further properties of the Recipe Extractor, checked under SpecExtract.  *)
(***************************************************************************)
\* C18: the section-scoped extractions (ingredients, instructions, notes,
\* nutrition) search from the matching heading to the next h2/h3 heading or,
\* when none follows, to the end of the document: a heading put behind the
\* end of the document changes none of the four results.
C18_LastSectionStillFound ==
    (fn = "extractRecipeData" /\ ret.stage = 1 /\ ~ret.recipeData.isNull) =>
        LET closed == arg.html \o "<h2></h2>"
        IN  /\ ret.recipeData.Ingredients = extractIngredients(closed)
            /\ ret.recipeData.Instructions = extractInstructions(closed)
            /\ ret.recipeData.Notes = extractNotes(closed)
            /\ ret.recipeData.Nutrition = extractNutrition(closed)

\* the nutrition section is the last of the document and states 120 calories;
\* the record has the default of 250
C18_LastNutritionSectionMissed ==
    /\ fn = "extractRecipeData"
    /\ ret.stage = 1
    /\ ~ret.recipeData.isNull
    /\ arg.html = "<h2>Instructions</h2><ol><li>Bake 20 minutes</li></ol>"
                  \o "<h2>Nutrition</h2><p>Calories: 120, Fat: 3.5 g</p>"
    /\ ret.recipeData.Nutrition.Calories = "250"
    /\ ret.recipeData.Nutrition.Fat = "10g"

\* C19: the Category of a record is the first category, in the order
\* Breakfast, Appetizer, Main Course, Dessert, Side Dish, Soup, Salad, Drink,
\* with a term of its term set in the content or in the keyword, letters
\* compared without case, and Main Course when there is none.
C19_FirstCategoryInContentOrKeyword ==
    (fn = "extractRecipeData" /\ ret.stage = 1 /\ ~ret.recipeData.isNull) =>
        LET Categories ==
                <<[name |-> "Breakfast",   terms |-> {"breakfast", "morning meal"}],
                  [name |-> "Appetizer",   terms |-> {"appetizer", "starter", "hors d'oeuvre"}],
                  [name |-> "Main Course", terms |-> {"main course", "dinner", "entree"}],
                  [name |-> "Dessert",     terms |-> {"dessert", "sweet", "cake", "cookie", "pie"}],
                  [name |-> "Side Dish",   terms |-> {"side dish", "accompaniment", "side"}],
                  [name |-> "Soup",        terms |-> {"soup", "stew", "broth"}],
                  [name |-> "Salad",       terms |-> {"salad"}],
                  [name |-> "Drink",       terms |-> {"drink", "beverage", "cocktail",
                                                      "smoothie"}]>>
            Matches(n) == \E t \in Categories[n].terms :
                              \/ includes(toLowerCase(arg.html), t)
                              \/ includes(toLowerCase(arg.keyword), t)
            category == ret.recipeData.Details.Category
        IN  IF \E n \in 1..8 : Matches(n)
            THEN \E n \in 1..8 : /\ Matches(n)
                                 /\ \A m \in 1..(n - 1) : ~Matches(m)
                                 /\ category = Categories[n].name
            ELSE category = "Main Course"

\* the keyword apple pie holds the dessert term pie, no earlier category
\* matches, and the record is filed under Soup
C19_ApplePieFiledUnderSoup ==
    /\ fn = "extractRecipeData"
    /\ ret.stage = 1
    /\ ~ret.recipeData.isNull
    /\ arg.keyword = "apple pie"
    /\ arg.html = "<p>An easy soup recipe: boil, then fry.</p>"
    /\ ret.recipeData.Details.Category = "Soup"

\* C20: Keywords is a comma-separated string: its first item is exactly the
\* keyword argument, then come the texts of the h2/h3 headers that do not
\* name the ingredients, instructions, steps, notes or tips, then the common
\* recipe adjectives of the content that are not yet in the list, and a
\* comma stands in front of every item but the first.
C20_KeywordsCommaSeparated ==
    (fn = "extractRecipeData" /\ ret.stage = 1 /\ ~ret.recipeData.isNull) =>
        LET headers == AllHeaders(arg.html, 1)
            texts == [k \in 1..Len(headers) |-> trim(stripHeadingTags(headers[k]))]
            named == SelectSeq(texts, LAMBDA t :
                        /\ t # ""
                        /\ \A w \in {"ingredients", "instructions", "steps", "notes", "tips"} :
                              ~includes(toLowerCase(t), w))
            RECURSIVE Listed(_, _)
            Listed(str, k) ==
                IF k > Len(CommonKeywords) THEN str
                ELSE IF /\ includes(toLowerCase(arg.html), CommonKeywords[k])
                        /\ ~includes(RestFrom(str, Len(arg.keyword) + 1), CommonKeywords[k])
                THEN Listed(str \o ", " \o CommonKeywords[k], k + 1)
                ELSE Listed(str, k + 1)
        IN  /\ \/ ret.recipeData.Keywords = arg.keyword
               \/ startsWith(ret.recipeData.Keywords, arg.keyword \o ",")
            /\ ret.recipeData.Keywords = Listed(Join(<<arg.keyword>> \o named, ", "), 1)

\* the keyword apple pie and the first adjective of the content stand in
\* Keywords without a comma between them
C20_KeywordRunsIntoFirstItem ==
    /\ fn = "extractRecipeData"
    /\ ret.stage = 1
    /\ ~ret.recipeData.isNull
    /\ arg.keyword = "apple pie"
    /\ arg.html = "<p>An easy soup recipe: boil, then fry.</p>"
    /\ ret.recipeData.Keywords = "apple pieeasy, recipe"

(***************************************************************************)
(* Properties of two concurrent invocations, checked under SpecPair.       *)
(***************************************************************************)
\* C21: two invocations for different keywords, interleaved in any way at
\* their awaits, share no state: what each has returned or thrown, and the
\* content it holds while it is suspended, is what it computes alone from
\* its own arguments and from the responses its own calls received.
C21_EachAsIfAlone ==
    fn = "generateArticleContent" /\ arg \in {1, 2} =>
        \A n \in {1, 2} :
            LET f == IF n # arg THEN ret
                     ELSE [pc |-> pc, promptSettings |-> promptSettings,
                           keyword |-> keyword, calls |-> calls, parts |-> parts,
                           content |-> content, title |-> title, outcome |-> outcome]
                ps == f.promptSettings
                cs == f.calls
                answered == { k \in 1..Len(cs) : cs[k].status = "ok" }
                own(k) == postProcess(ps, IF cs[k].kind = "title" THEN removeQuotes(cs[k].raw)
                                          ELSE cs[k].raw)
                threw == \E k \in answered : own(k).threw
                bodies == [k \in 1..3 |-> own(k).val]
                text == IF useMultiPart(ps)
                        THEN postProcess(ps, Join(bodies, "\n\n"))
                        ELSE own(1)
            IN  /\ f.pc = "idle" => f.content = "" /\ f.parts = <<>> /\ f.calls = <<>>
                /\ f.pc # "idle" =>
                      /\ f.keyword = (IF n = 1 THEN "bake bread" ELSE "garden tips")
                      /\ \A k \in answered : ~own(k).threw => cs[k].kept = own(k).val
                /\ f.pc = "title" => f.content = text.val
                /\ f.outcome.kind = "article" =>
                      /\ ~threw
                      /\ f.outcome = article(ps, own(Len(cs)).val, text.val, f.keyword)
                /\ f.outcome.kind = "error" =>
                      \/ cs[Len(cs)].status = "failed" /\ f.outcome.error = cs[Len(cs)].error
                      \/ f.outcome.error = "TypeError" /\ (threw \/ text.threw)

\* a multi-part invocation has returned its article while the single-pass
\* invocation for the other keyword waits for its title, its content received
C21_OneReturnedWhileOtherWaits ==
    /\ fn = "generateArticleContent"
    /\ arg = 2
    /\ pc = "done"
    /\ outcome.kind = "article"
    /\ keyword = "garden tips"
    /\ useMultiPart(promptSettings)
    /\ Len(parts) = 3
    /\ ret.pc = "title"
    /\ ret.keyword = "bake bread"
    /\ ~useMultiPart(ret.promptSettings)
    /\ ret.parts = <<>>
    /\ ret.content # ""

\* ---------------------------------------------------------------------------
\* Prompt settings of the web application (web/server.js).
\*
\* arg is the server's config object as far as generation reads it, ret
\* keeps the body of the last accepted save request and the promptSettings
\* the latest generation request since then handed to generateArticleContent.
\* ---------------------------------------------------------------------------

\* config.app.contentTemplate and config.prompts of defaultConfig; the server
\* holds the object created from them when the config module is first loaded.
defaultConfig ==
    [contentTemplate |->
        "Write a comprehensive, engaging, and SEO-optimized article about \"{keyword}\" " \o
        "that follows these guidelines:\n\n1. The article should be at least {minWords} words" \o
        "\n2. Use proper WordPress formatting with H2 and H3 headings (no H1 as that's for " \o
        "the title)\n3. Include a compelling introduction that hooks the reader\n4. Break " \o
        "down the topic into logical sections with descriptive headings\n5. Include " \o
        "practical tips, examples, and actionable advice\n6. Add a conclusion that " \o
        "summarizes key points\n7. Optimize for SEO with natural keyword usage\n8. Make " \o
        "the content valuable and informative for the reader",
     prompts |->
        [useMultiPartGeneration |-> FALSE,
         mainPrompt |-> "",
         part1Prompt |-> "Write an engaging introduction for an article about \"{keyword}\". The " \o
                        "introduction should hook the reader, explain why the topic is important, " \o
                        "and preview what the article will cover. Use approximately {minWords} words.",
         part2Prompt |-> "Write the main body content for an article about \"{keyword}\". This " \o
                        "should include detailed information, breakdown of the topic into logical " \o
                        "sections with appropriate H2 and H3 headings, practical tips, examples, " \o
                        "and actionable advice. Use approximately {minWords} words.",
         part3Prompt |-> "Write a conclusion for an article about \"{keyword}\". The conclusion " \o
                        "should summarize the key points, provide final thoughts, and possibly " \o
                        "include a call to action. Use approximately {minWords} words.",
         toneVoice |-> "",
         seoGuidelines |-> "",
         thingsToAvoid |-> "",
         articleFormat |-> "",
         useArticleFormat |-> FALSE]]

\* The object the form of the prompt-settings view submits: twelve fields.
formData ==
    [useMultiPartGeneration : BOOLEAN,
     mainPrompt : {"", "Write about {keyword}"},
     part1Prompt : {"Intro for {keyword}"},
     part2Prompt : {"Body for {keyword}"},
     part3Prompt : {"Conclusion for {keyword}"},
     toneVoice : {"friendly"},
     seoGuidelines : {""},
     thingsToAvoid : {"", "bake"},
     articleFormat : {"", "One H2, then a list"},
     useArticleFormat : BOOLEAN,
     enableRecipeDetection : BOOLEAN,
     recipeFormatPrompt : {"", "Recipe card"}]

\* POST /api/save-prompt-settings: the assignments to config.prompts.  The
\* .env update that follows is in a try/catch of its own and changes nothing
\* the server reads again; the response is always success.
savePromptSettings(prompts, body) ==
    [prompts EXCEPT !.useMultiPartGeneration = body.useMultiPartGeneration,
                    !.mainPrompt = body.mainPrompt,
                    !.part1Prompt = body.part1Prompt,
                    !.part2Prompt = body.part2Prompt,
                    !.part3Prompt = body.part3Prompt,
                    !.toneVoice = body.toneVoice,
                    !.seoGuidelines = body.seoGuidelines,
                    !.thingsToAvoid = body.thingsToAvoid,
                    !.articleFormat = body.articleFormat,
                    !.useArticleFormat = body.useArticleFormat]

\* The promptSettings object the four generation paths build from
\* config.prompts (config.prompts is an object from the start, so the
\* fallback to the bare content template is never taken).
handedPromptSettings(config) ==
    [useMultiPartGeneration |-> config.prompts.useMultiPartGeneration,
     mainPrompt |-> IF config.prompts.mainPrompt # "" THEN config.prompts.mainPrompt
                    ELSE config.contentTemplate,
     part1Prompt |-> config.prompts.part1Prompt,
     part2Prompt |-> config.prompts.part2Prompt,
     part3Prompt |-> config.prompts.part3Prompt,
     toneVoice |-> config.prompts.toneVoice,
     seoGuidelines |-> config.prompts.seoGuidelines,
     thingsToAvoid |-> config.prompts.thingsToAvoid]

GenerationRoutes ==
    {"start-job", "process-single-keyword", "generate-content", "regenerate-content"}

InitSettings ==
    /\ GeneratorIdle
    /\ fn = "promptSettings"
    /\ arg = defaultConfig
    /\ ret = [saved |-> [kind |-> "none"], handed |-> [kind |-> "none"]]

SavePromptSettings ==
    /\ fn = "promptSettings"
    /\ \E body \in formData :
          /\ arg' = [arg EXCEPT !.prompts = savePromptSettings(arg.prompts, body)]
          /\ ret' = [saved |-> [kind |-> "saved", body |-> body, success |-> TRUE],
                     handed |-> [kind |-> "none"]]
    /\ UNCHANGED fn
    /\ UNCHANGED generatorVars

GenerationRequest ==
    /\ fn = "promptSettings"
    /\ \E route \in GenerationRoutes :
          ret' = [ret EXCEPT !.handed = [kind |-> "object", route |-> route,
                                         promptSettings |-> handedPromptSettings(arg)]]
    /\ UNCHANGED <<fn, arg>>
    /\ UNCHANGED generatorVars

NextSettings == SavePromptSettings \/ GenerationRequest

SpecSettings == InitSettings /\ [][NextSettings]_vars

\* ---------------------------------------------------------------------------
\* C22: every setting of the last save request reported as saved is a field,
\* with the saved value, of the promptSettings a later generation request
\* hands to generateArticleContent, on each of the four generation routes.
\* ---------------------------------------------------------------------------
C22_SavedSettingsHanded ==
    (fn = "promptSettings" /\ ret.saved.kind = "saved" /\ ret.handed.kind = "object") =>
        \A f \in DOMAIN ret.saved.body :
            /\ f \in DOMAIN ret.handed.promptSettings
            /\ ret.handed.promptSettings[f] = ret.saved.body[f]

\* A save with the article format and recipe detection switched on, and a
\* later job whose promptSettings carry neither.
C22_FormatAndRecipeSettingsDropped ==
    /\ fn = "promptSettings"
    /\ ret.saved.kind = "saved"
    /\ ret.saved.success
    /\ ret.saved.body.useArticleFormat
    /\ ret.saved.body.articleFormat = "One H2, then a list"
    /\ ret.saved.body.enableRecipeDetection
    /\ ret.saved.body.mainPrompt # ""
    /\ ret.handed.kind = "object"
    /\ ret.handed.route = "start-job"
    /\ ret.handed.promptSettings.mainPrompt = ret.saved.body.mainPrompt
    /\ {"useArticleFormat", "articleFormat", "enableRecipeDetection", "recipeFormatPrompt"}
           \cap DOMAIN ret.handed.promptSettings = {}
    /\ "enableRecipeDetection" \notin DOMAIN arg.prompts

\* ---------------------------------------------------------------------------
\* Harness for extractNotes alone: the content is a run of fragments around
\* a notes heading.
\* ---------------------------------------------------------------------------
MaxNoteFragments == 3

NoteFragments ==
    {"<h3>Tips</h3>", "<h2>Chef's Notes</h2>", "<h2>About</h2>", "<p>Enjoy</p>",
     "<p>Serve it warm</p>", "<ul><li>Keep it cold</li></ul>", "<ul> </ul>", "</body>"}

InitNotes ==
    /\ GeneratorIdle
    /\ fn = "extractNotes"
    /\ arg \in [html : StringsUpTo(NoteFragments, MaxNoteFragments)]
    /\ ret = [stage |-> 0, val |-> ""]

ExtractNotes ==
    /\ fn = "extractNotes"
    /\ ret.stage = 0
    /\ \E r \in {extractNotes(arg.html)} : ret' = [stage |-> 1, val |-> r]
    /\ UNCHANGED <<fn, arg>>
    /\ UNCHANGED generatorVars

SpecNotes == InitNotes /\ [][ExtractNotes]_vars

\* ---------------------------------------------------------------------------
\* C23: extractNotes never returns an empty list: its result has a list item,
\* and it is the one-item placeholder tip when no notes heading is found and
\* when the section found has no <ul> and none of its paragraphs is longer
\* than 5 characters.
\* ---------------------------------------------------------------------------
C23_NotesNeverEmpty ==
    (fn = "extractNotes" /\ ret.stage = 1) =>
        LET section == matchSection(arg.html, "notes")
            paragraphs == AllParagraphs(section.body, 1)
            placeholder ==
                "<ul><li>For best results, let the dish rest for 5 minutes before serving.</li></ul>"
        IN  /\ includes(ret.val, "<li>")
            /\ ~section.found => ret.val = placeholder
            /\ ( /\ section.found
                 /\ ~FirstList(section.body, 1, "ul", TRUE).found
                 /\ sectionItems(paragraphs, FALSE) = "" ) => ret.val = placeholder

\* A tips section whose only paragraph is five characters long: the list
\* returned has no item.
C23_ShortParagraphGivesEmptyList ==
    /\ fn = "extractNotes"
    /\ ret.stage = 1
    /\ arg.html = "<h3>Tips</h3><p>Enjoy</p><h2>About</h2>"
    /\ ret.val = "<ul></ul>"

\* ---------------------------------------------------------------------------
\* Jobs of the web application (web/server.js).
\*
\* arg is what the handlers read from outside the process: the rows of the
\* spreadsheet and whether validateConfig() accepts the configuration.  ret
\* is the server: isJobRunning, jobProgress (log: the number of messages
\* pushed), the activation of the job function that is waiting at an await
\* (job), the response of the request handled by the step (res), and the
\* keywords the running job has finished, in order (done).
\* ---------------------------------------------------------------------------
MaxRows == 2

\* req.session.user of the requests
SessionUsers ==
    {[id |-> "a", role |-> "admin"], [id |-> "u1", role |-> "employee"],
     [id |-> "u2", role |-> "employee"]}

\* readKeywordsFromExcel: the rows with a keyword whose Status is not published
readKeywordsFromExcel(data) ==
    SelectSeq(data, LAMBDA row : row.Keyword # "" /\ toLowerCase(row.Status) # "published")

\* updateExcelWithPublicationStatus: the first row of the sheet whose keyword
\* is the one of keywordRow becomes Published, with the URL of the post
updateExcelWithPublicationStatus(data, keywordRow, postUrl) ==
    Let({ k \in 1..Len(data) : data[k].Keyword = keywordRow.Keyword }, LAMBDA hits :
        IF hits = {} THEN data
        ELSE [data EXCEPT ![MinOf(hits)].Status = "Published", ![MinOf(hits)].PostURL = postUrl])

neverBusy(server) == FALSE

\* if (isJobRunning) of the two start handlers
jobAlreadyRunning(server) == server.isJobRunning

\* logProgress, n times
logProgress(server, n) ==
    [server EXCEPT !.jobProgress.log = IF @ + n > 50 THEN 50 ELSE @ + n]

jobSettledStillRunning(server, how) ==
    [server EXCEPT !.jobProgress.status = IF how = "resolved" THEN "Completed" ELSE "Failed",
                   !.job = [kind |-> "none", settled |-> how, successCount |-> 0,
                            failureCount |-> 0]]

\* the handlers given to .then and .catch of the promise of the job function
jobSettled(server, how) ==
    logProgress([server EXCEPT !.isJobRunning = FALSE,
                               !.jobProgress.status = IF how = "resolved" THEN "Completed"
                                                      ELSE "Failed",
                               !.job = [kind |-> "none", settled |-> how,
                                        successCount |-> IF server.job.kind = "runAutomation"
                                                         THEN server.job.successCount ELSE 0,
                                        failureCount |-> IF server.job.kind = "runAutomation"
                                                         THEN server.job.failureCount ELSE 0]], 1)

runAutomationLoopStopsEarly(server) ==
    IF server.job.i >= Len(server.job.keywordRows)
    THEN jobSettled(logProgress(server, 1), "resolved")
    ELSE logProgress([server EXCEPT !.jobProgress.current = server.job.i,
                                    !.jobProgress.currentKeyword =
                                        server.job.keywordRows[server.job.i].Keyword,
                                    !.job.at = "generateArticleContent"], 2)

\* runAutomation from the top of an iteration of its loop to the next await,
\* or to its end
runAutomationLoop(server) ==
    IF server.job.i > Len(server.job.keywordRows)
    THEN jobSettled(logProgress(server, 1), "resolved")
    ELSE logProgress([server EXCEPT !.jobProgress.current = server.job.i,
                                    !.jobProgress.currentKeyword =
                                        server.job.keywordRows[server.job.i].Keyword,
                                    !.job.at = "generateArticleContent"], 2)

\* runAutomation(keywordFilter) up to its first await
runAutomation(server, data, filtered, userId, readThrows) ==
    Let(SelectSeq(readKeywordsFromExcel(data),
                  LAMBDA row : ~filtered \/ row.OwnerId = userId \/ row.CreatedBy = userId),
        LAMBDA keywordRows :
        IF readThrows THEN jobSettled(logProgress(server, 1), "rejected")
        ELSE IF Len(keywordRows) = 0 THEN jobSettled(logProgress(server, 1), "resolved")
        ELSE runAutomationLoop(
                logProgress([server EXCEPT !.jobProgress.total = Len(keywordRows),
                                           !.jobProgress.current = 0,
                                           !.jobProgress.status = "Processing keywords",
                                           !.job = [kind |-> "runAutomation",
                                                    keywordRows |-> keywordRows, i |-> 1,
                                                    successCount |-> 0, failureCount |-> 0,
                                                    at |-> ""]], 1)))

\* jobProgress as a start request sets it
startedProgress(total, key, userId) ==
    [total |-> total, current |-> 0, currentKeyword |-> key, status |-> "Starting...",
     log |-> 0, userId |-> userId]

\* what a request is answered: status and message, and for the two views the
\* job state handed over (isRunning, progress)
response(route, userId, status, body) ==
    [route |-> route, user |-> userId, status |-> status, body |-> body, isRunning |-> FALSE,
     progress |-> [total |-> 0, current |-> 0, currentKeyword |-> "", status |-> "",
                   log |-> 0, userId |-> ""]]

NoResponse == response("", "", 0, "")

\* rows as add-keyword writes them
SheetRows ==
    { [Keyword |-> key, Status |-> "Pending", PostURL |-> "", OwnerId |-> id, CreatedBy |-> id] :
        key \in {"soup", "cake"}, id \in {"u1", "u2"} }

InitJobs ==
    /\ GeneratorIdle
    /\ fn = "server"
    /\ arg \in [data : UNION { [1..n -> SheetRows] : n \in 0..MaxRows },
                configValid : BOOLEAN]
    /\ ret = [isJobRunning |-> FALSE,
              jobProgress |-> [total |-> 0, current |-> 0, currentKeyword |-> "",
                               status |-> "", log |-> 0, userId |-> ""],
              job |-> [kind |-> "none", settled |-> "none", successCount |-> 0,
                       failureCount |-> 0],
              res |-> NoResponse,
              done |-> <<>>]

\* POST /api/start-job
StartJob ==
    /\ fn = "server"
    /\ \E user \in SessionUsers, readThrows \in BOOLEAN :
          ret' = IF jobAlreadyRunning(ret)
                 THEN [ret EXCEPT !.res = response("start-job", user.id, 400,
                                                 "A job is already running")]
                 ELSE IF ~arg.configValid
                 THEN [ret EXCEPT !.res = response("start-job", user.id, 400,
                                                 "Invalid configuration. Check your .env file.")]
                 ELSE runAutomation(
                        logProgress([ret EXCEPT !.isJobRunning = TRUE,
                                                !.jobProgress = startedProgress(0, "", user.id),
                                                !.done = <<>>,
                                                !.res = response("start-job", user.id, 200,
                                                                 "Job started successfully")], 1),
                        arg.data, user.role = "employee", user.id, readThrows)
    /\ UNCHANGED <<fn, arg>>
    /\ UNCHANGED generatorVars

\* POST /api/process-single-keyword, with processSingleKeyword up to its first
\* await
ProcessSingleKeywordRequest ==
    /\ fn = "server"
    /\ \E user \in SessionUsers, key \in {"", "soup", "cake"}, readThrows \in BOOLEAN :
          LET answer(status, body) ==
                  [ret EXCEPT !.res = response("process-single-keyword", user.id, status, body)]
              keywordRows == readKeywordsFromExcel(arg.data)
              found == { k \in 1..Len(keywordRows) : keywordRows[k].Keyword = key }
              keywordRow == keywordRows[MinOf(found)]
          IN  ret' = IF jobAlreadyRunning(ret) THEN answer(400, "A job is already running")
                     ELSE IF key = "" THEN answer(400, "Keyword is required")
                     ELSE IF ~arg.configValid
                     THEN answer(400, "Invalid configuration. Check your .env file.")
                     ELSE IF readThrows THEN answer(500, "Failed to process keyword")
                     ELSE IF found = {} THEN answer(404, "Keyword not found in Excel file")
                     ELSE IF /\ user.role = "employee"
                             /\ keywordRow.OwnerId # "" /\ keywordRow.OwnerId # user.id
                             /\ keywordRow.CreatedBy # "" /\ keywordRow.CreatedBy # user.id
                     THEN answer(403, "You do not have permission to process this keyword")
                     ELSE IF keywordRow.Status = "Published"
                     THEN answer(400, "This keyword has already been published")
                     ELSE logProgress(
                            [ret EXCEPT !.isJobRunning = TRUE,
                                        !.jobProgress =
                                            [startedProgress(1, key, user.id)
                                                EXCEPT !.status = "Processing"],
                                        !.job = [kind |-> "processSingleKeyword",
                                                 keywordRow |-> keywordRow,
                                                 at |-> "generateArticleContent"],
                                        !.done = <<>>,
                                        !.res = response("process-single-keyword", user.id, 200,
                                                         "Started processing keyword")], 3)
    /\ UNCHANGED <<fn, arg>>
    /\ UNCHANGED generatorVars

\* An await of runAutomation ends: generateArticleContent or publishToWordPress
\* returns or throws (with the sheet update that follows the publication), or
\* the delay between two keywords is over.
AutomationContinues ==
    /\ fn = "server"
    /\ ret.job.kind = "runAutomation"
    /\ \E ok \in BOOLEAN, updateThrows \in BOOLEAN :
          LET row == ret.job.keywordRows[ret.job.i]
              quiet == [ret EXCEPT !.res = NoResponse]
              last == ret.job.i = Len(ret.job.keywordRows)
              failed == runAutomationLoop(
                          logProgress([quiet EXCEPT !.job.failureCount = @ + 1,
                                                    !.job.i = @ + 1,
                                                    !.done = Append(@, [row |-> row, ok |-> FALSE])],
                                      1))
              published == logProgress([quiet EXCEPT !.job.successCount = @ + 1,
                                                     !.done = Append(@, [row |-> row, ok |-> TRUE])],
                                       1)
          IN  \/ /\ ret.job.at = "generateArticleContent"
                 /\ ~updateThrows
                 /\ ret' = IF ok THEN logProgress([quiet EXCEPT !.job.at = "publishToWordPress"], 1)
                           ELSE failed
                 /\ UNCHANGED arg
              \/ /\ ret.job.at = "publishToWordPress"
                 /\ ok \/ ~updateThrows
                 /\ ret' = IF ~ok \/ updateThrows THEN failed
                           ELSE IF last THEN runAutomationLoop([published EXCEPT !.job.i = @ + 1])
                           ELSE logProgress([published EXCEPT !.job.at = "setTimeout"], 1)
                 /\ arg' = IF ok /\ ~updateThrows
                           THEN [arg EXCEPT !.data = updateExcelWithPublicationStatus(
                                                        @, row, "post of " \o ret.jobProgress.userId)]
                           ELSE arg
              \/ /\ ret.job.at = "setTimeout"
                 /\ ok /\ ~updateThrows
                 /\ ret' = runAutomationLoop([quiet EXCEPT !.job.i = @ + 1])
                 /\ UNCHANGED arg
    /\ UNCHANGED fn
    /\ UNCHANGED generatorVars

\* An await of processSingleKeyword ends.
SingleKeywordContinues ==
    /\ fn = "server"
    /\ ret.job.kind = "processSingleKeyword"
    /\ \E ok \in BOOLEAN, updateThrows \in BOOLEAN :
          LET quiet == [ret EXCEPT !.res = NoResponse]
              failed == jobSettled(logProgress(quiet, 1), "rejected")
          IN  \/ /\ ret.job.at = "generateArticleContent"
                 /\ ~updateThrows
                 /\ ret' = IF ok THEN logProgress([quiet EXCEPT !.job.at = "publishToWordPress"], 1)
                           ELSE failed
                 /\ UNCHANGED arg
              \/ /\ ret.job.at = "publishToWordPress"
                 /\ ok \/ ~updateThrows
                 /\ ret' = IF ~ok \/ updateThrows THEN failed
                           ELSE jobSettled(
                                  logProgress([quiet EXCEPT !.jobProgress.current = 1,
                                                            !.jobProgress.status = "Completed",
                                                            !.done = <<[row |-> ret.job.keywordRow,
                                                                        ok |-> TRUE]>>], 1),
                                  "resolved")
                 /\ arg' = IF ok /\ ~updateThrows
                           THEN [arg EXCEPT !.data = updateExcelWithPublicationStatus(
                                                        @, ret.job.keywordRow,
                                                        "post of " \o ret.jobProgress.userId)]
                           ELSE arg
    /\ UNCHANGED fn
    /\ UNCHANGED generatorVars

\* GET /api/job-status: the object answered
JobStatus ==
    /\ fn = "server"
    /\ \E user \in SessionUsers :
          ret' = [ret EXCEPT !.res =
                    IF /\ user.role = "employee"
                       /\ ret.jobProgress.userId # ""
                       /\ ret.jobProgress.userId # user.id
                    THEN [response("job-status", user.id, 200, "")
                            EXCEPT !.progress.status = "No job running"]
                    ELSE [response("job-status", user.id, 200, "")
                            EXCEPT !.isRunning = ret.isJobRunning,
                                   !.progress = ret.jobProgress]]
    /\ UNCHANGED <<fn, arg>>
    /\ UNCHANGED generatorVars

\* GET /: isJobRunning and jobProgress as handed to the index view
HomePage ==
    /\ fn = "server"
    /\ \E user \in SessionUsers :
          ret' = [ret EXCEPT !.res = [response("home", user.id, 200, "")
                                        EXCEPT !.isRunning = ret.isJobRunning,
                                               !.progress = ret.jobProgress]]
    /\ UNCHANGED <<fn, arg>>
    /\ UNCHANGED generatorVars

NextJobs ==
    \/ StartJob
    \/ ProcessSingleKeywordRequest
    \/ AutomationContinues
    \/ SingleKeywordContinues
    \/ JobStatus
    \/ HomePage

SpecJobs == InitJobs /\ [][NextJobs]_vars

\* WF: every external call (LLM, WordPress, spreadsheet, timer) of a running
\* job eventually returns or fails.
SpecJobsFair ==
    SpecJobs /\ WF_vars(AutomationContinues) /\ WF_vars(SingleKeywordContinues)

\* ---------------------------------------------------------------------------
\* C24: at most one job at a time: while isJobRunning is true a start-job or
\* process-single-keyword request is answered 400 'A job is already running'
\* and leaves isJobRunning, jobProgress, the running job and the sheet as
\* they are; isJobRunning is true exactly while a job function is running.
\* ---------------------------------------------------------------------------
C24_OneJobAtATime ==
    /\ [](ret.isJobRunning <=> ret.job.kind # "none")
    /\ [][(ret.isJobRunning /\ ret'.res.route \in {"start-job", "process-single-keyword"}) =>
            /\ ret'.res.status = 400
            /\ ret'.res.body = "A job is already running"
            /\ ret'.isJobRunning
            /\ ret'.jobProgress = ret.jobProgress
            /\ ret'.job = ret.job
            /\ ret'.done = ret.done
            /\ arg' = arg]_vars

\* A user asks for a single keyword while another user's automation waits
\* for the publication of its second keyword.
C24_SecondStartRefused ==
    /\ fn = "server"
    /\ ret.isJobRunning
    /\ ret.job.kind = "runAutomation"
    /\ ret.job.i = 2
    /\ ret.job.at = "publishToWordPress"
    /\ ret.res.route = "process-single-keyword"
    /\ ret.res.status = 400
    /\ ret.res.user # ret.jobProgress.userId

\* ---------------------------------------------------------------------------
\* C25: every started job eventually sets isJobRunning back to false; when
\* its job function ends, isJobRunning is false and the status is
\* 'Completed' if it resolved (runAutomation always does once it has read the
\* sheet, processSingleKeyword when the keyword was published and the sheet
\* updated) and 'Failed' if it rejected; and a start-job request made while
\* no job runs and the configuration is valid is accepted.
\* ---------------------------------------------------------------------------
C25_JobsEndAndFreeTheServer ==
    /\ ret.isJobRunning ~> (~ret.isJobRunning /\ ret.jobProgress.status \in {"Completed", "Failed"})
    /\ [][(ret.job.kind # "none" /\ ret'.job.kind = "none") =>
            /\ ~ret'.isJobRunning
            /\ ret'.jobProgress.status =
                  IF ret.job.kind = "runAutomation" \/ ret'.done # <<>> THEN "Completed"
                  ELSE "Failed"
            /\ ret'.job.settled =
                  IF ret'.jobProgress.status = "Completed" THEN "resolved" ELSE "rejected"]_vars
    /\ [][(~ret.isJobRunning /\ arg.configValid /\ ret'.res.route = "start-job"
              /\ ret'.res # ret.res) =>
            /\ ret'.res.status = 200
            /\ ret'.jobProgress.userId = ret'.res.user
            /\ ret'.jobProgress.log >= 2
            /\ ret'.isJobRunning <=> ret'.job.kind = "runAutomation"]_vars

\* A rejected single-keyword job and a resolved automation, both ended.
C25_FailedJobEnded ==
    /\ fn = "server"
    /\ ~ret.isJobRunning
    /\ ret.job.kind = "none"
    /\ ret.job.settled = "rejected"
    /\ ret.jobProgress.status = "Failed"
    /\ ret.jobProgress.total = 1
    /\ ret.jobProgress.currentKeyword = "cake"

\* ---------------------------------------------------------------------------
\* C26: runAutomation selects the pending rows of the sheet (for an employee
\* the own ones), in sheet order, and processes each exactly once in that
\* order; a keyword that fails is counted and the next one is processed; when
\* the loop ends every selected row has been processed and successCount +
\* failureCount is their number.
\* ---------------------------------------------------------------------------
C26_EachSelectedKeywordOnce ==
    /\ [](ret.job.kind = "runAutomation" =>
            /\ Len(ret.done) = IF ret.job.at = "setTimeout" THEN ret.job.i ELSE ret.job.i - 1
            /\ ret.job.i <= Len(ret.job.keywordRows)
            /\ \A k \in 1..Len(ret.done) : ret.done[k].row = ret.job.keywordRows[k]
            /\ ret.job.successCount = Cardinality({ k \in 1..Len(ret.done) : ret.done[k].ok })
            /\ ret.job.successCount + ret.job.failureCount = Len(ret.done))
    /\ [][(ret.job.kind = "none" /\ ret'.job.kind = "runAutomation") =>
            LET mine(row) == \/ ret'.jobProgress.userId = "a"
                             \/ row.OwnerId = ret'.jobProgress.userId
                             \/ row.CreatedBy = ret'.jobProgress.userId
            IN  /\ ret'.job.keywordRows =
                      SelectSeq(arg.data, LAMBDA row : row.Status = "Pending" /\ mine(row))
                /\ ret'.job.i = 1]_vars
    /\ [][(ret.job.kind = "runAutomation" /\ ret'.done # ret.done) =>
            /\ ret'.done = Append(ret.done, [row |-> ret.job.keywordRows[ret.job.i],
                                             ok |-> ret'.done[Len(ret'.done)].ok])
            /\ IF ret.job.i < Len(ret.job.keywordRows)
               THEN /\ ret'.job.kind = "runAutomation"
                    /\ ret'.job.keywordRows = ret.job.keywordRows
                    /\ ret'.job.i = IF ret'.job.at = "setTimeout" THEN ret.job.i
                                    ELSE ret.job.i + 1
               ELSE /\ ret'.job.kind = "none"
                    /\ ret'.job.successCount + ret'.job.failureCount
                          = Len(ret.job.keywordRows)
                    /\ Len(ret'.done) = Len(ret.job.keywordRows)]_vars
    /\ [][(ret.job.kind = "runAutomation" /\ ret'.job.kind = "none") =>
            ret.job.i = Len(ret.job.keywordRows) /\ ret'.done # ret.done]_vars

\* The first of two keywords failed, the second was published, the job ended.
C26_FailureThenSuccess ==
    /\ fn = "server"
    /\ ret.job.kind = "none"
    /\ ret.job.settled = "resolved"
    /\ ret.job.successCount = 1
    /\ ret.job.failureCount = 1
    /\ Len(ret.done) = 2
    /\ ~ret.done[1].ok
    /\ ret.done[2].ok
    /\ ret.done[1].row.Keyword = "soup"
    /\ ret.done[2].row.Keyword = "cake"
    /\ arg.data[1].Status = "Pending"
    /\ arg.data[2].Status = "Published"

\* ---------------------------------------------------------------------------
\* C28: the job state GET /api/job-status and GET / hand to an employee is
\* never the jobProgress of a job another user started.
\* ---------------------------------------------------------------------------
C28_OnlyOwnJobShown ==
    (fn = "server" /\ ret.res.route \in {"job-status", "home"} /\ ret.res.user \in {"u1", "u2"}) =>
        ret.res.progress.userId \in {"", ret.res.user}

\* The home page hands employee u2 the running job of u1.
C28_HomePageShowsOtherUsersJob ==
    /\ fn = "server"
    /\ ret.res.route = "home"
    /\ ret.res.user = "u2"
    /\ ret.res.isRunning
    /\ ret.res.progress.userId = "u1"
    /\ ret.res.progress.currentKeyword = "soup"
    /\ ret.res.progress.log > 0

\* ---------------------------------------------------------------------------
\* Keyword requests of the web application (web/server.js): the sheet starts
\* empty and grows by add-keyword up to MaxRows rows.  arg.data is the sheet;
\* ret.res is the response of the step and ret.inflight the publication that
\* waits for WordPress (of publish-content, or of the job processSingleKeyword
\* started by process-single-keyword); one publication is followed at a time.
\* ---------------------------------------------------------------------------

\* the ownership test of the employee branch of the four handlers
notOwnRow(row, user) ==
    /\ user.role = "employee"
    /\ row.OwnerId # "" /\ row.OwnerId # user.id
    /\ row.CreatedBy # "" /\ row.CreatedBy # user.id

InitRows ==
    /\ GeneratorIdle
    /\ fn = "keywords"
    /\ arg = [data |-> <<>>]
    /\ ret = [res |-> NoResponse, inflight |-> [route |-> ""]]

\* POST /api/add-keyword
AddKeyword ==
    /\ fn = "keywords"
    /\ Len(arg.data) < MaxRows
    /\ \E user \in SessionUsers, key \in {"", "soup", "cake"} :
          LET existsForUser == \E k \in 1..Len(arg.data) :
                                  /\ arg.data[k].Keyword = key
                                  /\ \/ arg.data[k].OwnerId = user.id
                                     \/ arg.data[k].CreatedBy = user.id
          IN  IF key = ""
              THEN /\ ret' = [ret EXCEPT !.res = response("add-keyword", user.id, 400,
                                                          "Keyword is required")]
                   /\ UNCHANGED arg
              ELSE IF existsForUser
              THEN /\ ret' = [ret EXCEPT !.res = response("add-keyword", user.id, 400,
                                                "You already have this keyword in your list")]
                   /\ UNCHANGED arg
              ELSE /\ ret' = [ret EXCEPT !.res = response("add-keyword", user.id, 200,
                                                          "Keyword added successfully")]
                   /\ arg' = [arg EXCEPT !.data =
                                Append(@, [Keyword |-> key, Status |-> "Pending", PostURL |-> "",
                                           OwnerId |-> user.id, CreatedBy |-> user.id])]
    /\ UNCHANGED fn
    /\ UNCHANGED generatorVars

\* POST /api/delete-keyword
DeleteKeyword ==
    /\ fn = "keywords"
    /\ \E user \in SessionUsers, key \in {"", "soup", "cake"} :
          LET found == { k \in 1..Len(arg.data) : arg.data[k].Keyword = key }
              keywordIndex == MinOf(found)
              answer(status, body) ==
                  [ret EXCEPT !.res = response("delete-keyword", user.id, status, body)]
          IN  IF key = "" THEN ret' = answer(400, "Keyword is required") /\ UNCHANGED arg
              ELSE IF found = {} THEN ret' = answer(404, "Keyword not found") /\ UNCHANGED arg
              ELSE IF notOwnRow(arg.data[keywordIndex], user)
              THEN /\ ret' = answer(403, "You do not have permission to delete this keyword")
                   /\ UNCHANGED arg
              ELSE /\ ret' = answer(200, "Keyword deleted successfully")
                   /\ arg' = [arg EXCEPT !.data =
                                SubSeq(@, 1, keywordIndex - 1) \o SubSeq(@, keywordIndex + 1, Len(@))]
    /\ UNCHANGED fn
    /\ UNCHANGED generatorVars

\* POST /api/delete-article-history
DeleteArticleHistory ==
    /\ fn = "keywords"
    /\ \E user \in SessionUsers, key \in {"", "soup", "cake"} :
          LET found == { k \in 1..Len(arg.data) : arg.data[k].Keyword = key }
              keywordIndex == MinOf(found)
              answer(status, body) ==
                  [ret EXCEPT !.res = response("delete-article-history", user.id, status, body)]
          IN  IF key = "" THEN ret' = answer(400, "Keyword is required") /\ UNCHANGED arg
              ELSE IF found = {}
              THEN ret' = answer(404, "Keyword not found in Excel file") /\ UNCHANGED arg
              ELSE IF notOwnRow(arg.data[keywordIndex], user)
              THEN /\ ret' = answer(403, "You do not have permission to modify this article history")
                   /\ UNCHANGED arg
              ELSE /\ ret' = answer(200, "Article history deleted successfully")
                   /\ arg' = [arg EXCEPT !.data[keywordIndex].Status = "Pending",
                                         !.data[keywordIndex].PostURL = ""]
    /\ UNCHANGED fn
    /\ UNCHANGED generatorVars

\* POST /api/publish-content and POST /api/process-single-keyword up to the
\* await of publishToWordPress
StartPublication ==
    /\ fn = "keywords"
    /\ ret.inflight.route = ""
    /\ \E user \in SessionUsers, key \in {"", "soup", "cake"},
          route \in {"publish-content", "process-single-keyword"} :
          LET keywordRows == readKeywordsFromExcel(arg.data)
              found == { k \in 1..Len(keywordRows) : keywordRows[k].Keyword = key }
              keywordRow == keywordRows[MinOf(found)]
              answer(status, body) == [ret EXCEPT !.res = response(route, user.id, status, body)]
          IN  ret' = IF key = "" THEN answer(400, "Keyword is required")
                     ELSE IF found = {} THEN answer(404, "Keyword not found in Excel file")
                     ELSE IF notOwnRow(keywordRow, user)
                     THEN answer(403, "You do not have permission")
                     ELSE IF route = "process-single-keyword" /\ keywordRow.Status = "Published"
                     THEN answer(400, "This keyword has already been published")
                     ELSE [res |-> IF route = "process-single-keyword"
                                   THEN response(route, user.id, 200, "Started processing keyword")
                                   ELSE NoResponse,
                           inflight |-> [route |-> route, user |-> user, keywordRow |-> keywordRow]]
    /\ UNCHANGED <<fn, arg>>
    /\ UNCHANGED generatorVars

\* publishToWordPress returns or throws; after it the sheet is updated
PublicationReturns ==
    /\ fn = "keywords"
    /\ ret.inflight.route # ""
    /\ \E ok \in BOOLEAN :
          /\ ret' = [res |-> IF ret.inflight.route = "process-single-keyword"
                             THEN response("processSingleKeyword", ret.inflight.user.id,
                                           IF ok THEN 200 ELSE 500, "")
                             ELSE response(ret.inflight.route, ret.inflight.user.id,
                                           IF ok THEN 200 ELSE 500,
                                           IF ok THEN "Article saved as draft successfully"
                                           ELSE "Failed to save article"),
                     inflight |-> [route |-> ""]]
          /\ arg' = IF ok
                    THEN [arg EXCEPT !.data = updateExcelWithPublicationStatus(
                                                 @, ret.inflight.keywordRow,
                                                 "post of " \o ret.inflight.user.id)]
                    ELSE arg
    /\ UNCHANGED fn
    /\ UNCHANGED generatorVars

NextRows ==
    \/ AddKeyword
    \/ DeleteKeyword
    \/ DeleteArticleHistory
    \/ StartPublication
    \/ PublicationReturns

SpecRows == InitRows /\ [][NextRows]_vars

\* ---------------------------------------------------------------------------
\* C27: a step made for an employee never changes or removes a row whose
\* OwnerId and CreatedBy are both other users (the rows of the others stay,
\* in order, as they were), also when several users hold the same keyword;
\* a publication that changes the sheet marks a row of the requester.
\* ---------------------------------------------------------------------------
C27_RowsOfOthersUntouched ==
    [][\A e \in {"u1", "u2"} :
          (ret'.res.user = e /\ ret'.res.status # 0) =>
             LET others(row) == /\ row.OwnerId # "" /\ row.OwnerId # e
                                /\ row.CreatedBy # "" /\ row.CreatedBy # e
             IN  SelectSeq(arg'.data, others) = SelectSeq(arg.data, others)]_vars

\* u1 and u2 both hold 'soup'; u1's row is published; u2 publishes its own
\* 'soup' and u1's row now carries u2's post, while u2's row is still Pending.
C27_PublicationMarksOtherUsersRow ==
    /\ fn = "keywords"
    /\ Len(arg.data) = 2
    /\ arg.data[1].Keyword = "soup" /\ arg.data[2].Keyword = "soup"
    /\ arg.data[1].OwnerId = "u1" /\ arg.data[1].CreatedBy = "u1"
    /\ arg.data[2].OwnerId = "u2" /\ arg.data[2].CreatedBy = "u2"
    /\ arg.data[1].Status = "Published" /\ arg.data[1].PostURL = "post of u2"
    /\ arg.data[2].Status = "Pending"
    /\ ret.res.route = "publish-content" /\ ret.res.user = "u2" /\ ret.res.status = 200

\* ---------------------------------------------------------------------------
\* The config module (src/config.js) and the server's use of what it exports.
\*
\* Objects matter here, so ret.heap holds the nested objects (wordpress
\* stands for the wordpress, openai and app sections, prompts for the prompt
\* section) and a configuration object is the pair of references to them.
\* ret.config is the module's variable config, ret.exported the object that
\* module.exports captured, ret.same whether these are one object, and
\* ret.listening whether startServer has awaited loadConfig.  arg.file is
\* data/config.json.  Objects 1 and 2 are the sections of defaultConfig.
\* ---------------------------------------------------------------------------

\* the module evaluated: let config = { ...defaultConfig }; module.exports = { config, ... }
moduleLoaded ==
    [exported |-> [wordpress |-> 1, prompts |-> 2], config |-> [wordpress |-> 1, prompts |-> 2],
     same |-> TRUE, listening |-> FALSE, heap |-> [i \in 1..8 |-> ""]]

\* a new object with the value v, handed to use; objects nothing refers to
\* any more are forgotten
allocate(m, v, use(_, _)) ==
    Let(MinOf(1..8 \ ({1, 2} \cup { m.exported[f] : f \in {"wordpress", "prompts"} }
                              \cup { m.config[f] : f \in {"wordpress", "prompts"} })),
        LAMBDA id :
    Let(use([m EXCEPT !.heap[id] = v], id), LAMBDA n :
        [n EXCEPT !.heap = [i \in 1..8 |->
            IF i \in {1, 2} \cup { n.exported[f] : f \in {"wordpress", "prompts"} }
                            \cup { n.config[f] : f \in {"wordpress", "prompts"} }
            THEN n.heap[i] ELSE ""]]))

\* saveConfig(newConfig): [m, file, saved]
saveConfig(m, file, newConfig, writeThrows) ==
    IF writeThrows THEN [m |-> m, file |-> file, saved |-> FALSE]
    ELSE [m |-> [m EXCEPT !.config = newConfig, !.same = FALSE],
          file |-> [wordpress |-> m.heap[newConfig.wordpress],
                    prompts |-> m.heap[newConfig.prompts]],
          saved |-> TRUE]

\* loadConfig(): [m, file]
loadConfig(m, file, writeThrows) ==
    IF file # [wordpress |-> "ENOENT", prompts |-> "ENOENT"]
    THEN [m |-> allocate(m, file.wordpress, LAMBDA m1, w :
                allocate([m1 EXCEPT !.config.wordpress = w, !.same = FALSE], file.prompts,
                         LAMBDA m2, p : [m2 EXCEPT !.config.prompts = p])),
          file |-> file]
    ELSE [m |-> [saveConfig(m, file, [wordpress |-> 1, prompts |-> 2], writeThrows).m
                    EXCEPT !.config = [wordpress |-> 1, prompts |-> 2], !.same = FALSE],
          file |-> saveConfig(m, file, [wordpress |-> 1, prompts |-> 2], writeThrows).file]

\* validateConfig(): the module's own config has the required values
validateConfig(m) == m.heap[m.config.wordpress] # ""

InitConfig ==
    /\ GeneratorIdle
    /\ fn = "config"
    /\ arg \in [file : [wordpress : {"ENOENT"}, prompts : {"ENOENT"}]
                       \cup [wordpress : {"", "wp1"}, prompts : {"", "p1"}]]
    /\ ret = moduleLoaded

\* loadConfig() of the module's last statement and of startServer
LoadConfig ==
    /\ fn = "config"
    /\ \E writeThrows \in BOOLEAN :
          \E r \in {loadConfig(ret, arg.file, writeThrows)} :
             /\ ret' = [r.m EXCEPT !.listening = TRUE]
             /\ arg' = [arg EXCEPT !.file = r.file]
    /\ UNCHANGED fn
    /\ UNCHANGED generatorVars

\* POST /api/save-settings: the sections of the server's config are replaced
\* and saveConfig(config) is awaited
SaveSettings ==
    /\ fn = "config"
    /\ ret.listening
    /\ \E v \in {"", "wp1", "wp2"}, writeThrows \in BOOLEAN :
          \E r \in {Let(allocate(ret, v, LAMBDA m, w :
                          [m EXCEPT !.exported.wordpress = w,
                                    !.config.wordpress = IF m.same THEN w ELSE @]),
                        LAMBDA m : saveConfig(m, arg.file, m.exported, writeThrows))} :
             /\ ret' = r.m
             /\ arg' = [arg EXCEPT !.file = r.file]
    /\ UNCHANGED fn
    /\ UNCHANGED generatorVars

\* POST /api/save-prompt-settings: config.prompts of the server is written
\* in place, and no file is written
PromptSettingsSaved ==
    /\ fn = "config"
    /\ ret.listening
    /\ \E v \in {"", "p1", "p2"} : ret' = [ret EXCEPT !.heap[ret.exported.prompts] = v]
    /\ UNCHANGED <<fn, arg>>
    /\ UNCHANGED generatorVars

\* the process is started again: the module is evaluated anew, the file stays
Restart ==
    /\ fn = "config"
    /\ ret.listening
    /\ ret' = moduleLoaded
    /\ UNCHANGED <<fn, arg>>
    /\ UNCHANGED generatorVars

NextConfig == LoadConfig \/ SaveSettings \/ PromptSettingsSaved \/ Restart

SpecConfig == InitConfig /\ [][NextConfig]_vars

\* ---------------------------------------------------------------------------
\* C29: once loadConfig has run, the config object the other modules got
\* from require holds the values of the module's own config, the one
\* validateConfig reads (after a load from the file: the values of the
\* file), whatever loadConfig and saveConfig calls follow.
\* ---------------------------------------------------------------------------
C29_ExportedConfigIsTheLoadedOne ==
    (fn = "config" /\ ret.listening) =>
        \A f \in {"wordpress", "prompts"} :
            ret.heap[ret.exported[f]] = ret.heap[ret.config[f]]

\* Settings were saved, the process was restarted and loadConfig read them:
\* validateConfig accepts the configuration while the server's config object
\* still has the empty defaults.
C29_ServerKeepsDefaultsAfterRestart ==
    /\ fn = "config"
    /\ ret.listening
    /\ arg.file.wordpress = "wp2"
    /\ ret.heap[ret.config.wordpress] = "wp2"
    /\ validateConfig(ret)
    /\ ret.heap[ret.exported.wordpress] = ""
    /\ ~ret.same

\* ---------------------------------------------------------------------------
\* The user store (web/models/users.js; web/server.js has the same
\* functions).  arg.users is the users array of data/users.json; ret.call
\* holds the two activations of createUser (where each waits, its userData
\* and its local array users) and ret.created the users whose createUser
\* resolved.
\* ---------------------------------------------------------------------------
UserData ==
    {[username |-> "bob", email |-> "bob@example.com"],
     [username |-> "eve", email |-> "eve@example.com"],
     [username |-> "bob", email |-> "eve@example.com"]}

InitUsers ==
    /\ GeneratorIdle
    /\ fn = "createUser"
    /\ arg = [users |-> <<[username |-> "admin", email |-> "admin@example.com"]>>]
    /\ ret = [call |-> [c \in 1..2 |-> [pc |-> "idle", userData |-> Null, users |-> <<>>]],
              created |-> {}]

\* createUser(userData) is called: getAllUsers awaits the file
CreateUser ==
    /\ fn = "createUser"
    /\ \E c \in 1..2, userData \in UserData :
          /\ ret.call[c].pc \in {"idle", "resolved", "rejected"}
          /\ ret' = [ret EXCEPT !.call[c] = [pc |-> "readFile", userData |-> userData,
                                             users |-> <<>>]]
    /\ UNCHANGED <<fn, arg>>
    /\ UNCHANGED generatorVars

\* fs.readFile returns (or throws, and getAllUsers returns []): the check for
\* an existing user, the push, and saveUsers awaits the write
ReadFileReturns ==
    /\ fn = "createUser"
    /\ \E c \in 1..2, readThrows \in BOOLEAN :
          /\ ret.call[c].pc = "readFile"
          /\ LET users == IF readThrows THEN <<>> ELSE arg.users
                 userData == ret.call[c].userData
                 existingUser == \E k \in 1..Len(users) :
                                    \/ users[k].username = userData.username
                                    \/ users[k].email = userData.email
             IN  ret' = IF existingUser
                        THEN [ret EXCEPT !.call[c].pc = "rejected"]
                        ELSE [ret EXCEPT !.call[c].pc = "writeFile",
                                         !.call[c].users = Append(users, userData)]
    /\ UNCHANGED <<fn, arg>>
    /\ UNCHANGED generatorVars

\* fs.writeFile returns or throws: createUser resolves or rejects
WriteFileReturns ==
    /\ fn = "createUser"
    /\ \E c \in 1..2, writeThrows \in BOOLEAN :
          /\ ret.call[c].pc = "writeFile"
          /\ IF writeThrows
             THEN /\ ret' = [ret EXCEPT !.call[c].pc = "rejected"]
                  /\ UNCHANGED arg
             ELSE /\ ret' = [ret EXCEPT !.call[c].pc = "resolved",
                                        !.created = @ \cup {ret.call[c].userData}]
                  /\ arg' = [arg EXCEPT !.users = ret.call[c].users]
    /\ UNCHANGED fn
    /\ UNCHANGED generatorVars

NextUsers == CreateUser \/ ReadFileReturns \/ WriteFileReturns

SpecUsers == InitUsers /\ [][NextUsers]_vars

\* ---------------------------------------------------------------------------
\* C30: no successful creation is lost, whatever the interleaving of the
\* calls at their file reads and writes: every user whose createUser
\* resolved is in the store, and the store never holds two users with the
\* same username or the same email.
\* ---------------------------------------------------------------------------
C30_NoCreatedUserLost ==
    fn = "createUser" =>
        /\ \A u \in ret.created : \E k \in 1..Len(arg.users) : arg.users[k] = u
        /\ \A j, k \in 1..Len(arg.users) :
              (j # k) => /\ arg.users[j].username # arg.users[k].username
                         /\ arg.users[j].email # arg.users[k].email

\* Both calls, for bob and for eve, read the store before either wrote: both
\* resolved, and the store has eve but not bob.
C30_BobLostToEve ==
    /\ fn = "createUser"
    /\ ret.call[1].pc = "resolved" /\ ret.call[1].userData.username = "bob"
    /\ ret.call[2].pc = "resolved" /\ ret.call[2].userData.username = "eve"
    /\ ret.call[1].userData.email # ret.call[2].userData.email
    /\ Len(ret.call[1].users) = 2 /\ Len(ret.call[2].users) = 2
    /\ Len(arg.users) = 2
    /\ arg.users[1].username = "admin"
    /\ arg.users[2].username = "eve"

====
